---------------------------- MODULE Spec2Model ----------------------------
(***************************************************************************)
(* Model of the agent-evaluation scripts in src/evaluation:                *)
(*   - the simulated business functions and the tool registry              *)
(*     (business_functions.py),                                            *)
(*   - the agentic round-trip driver execute_agent_query                   *)
(*     (agent_helpers.py) and its two execute_agent_with_tools variants    *)
(*     (tool_call_accuracy.py, comprehensive_agent_evaluation.py),         *)
(*   - the dataset loop generate_test_dataset and the script around it     *)
(*     (generate_agent_test_dataset.py),                                   *)
(*   - the tool schemas (tool_schemas.py) and the evaluator schemas        *)
(*     (schema_mappings.py),                                               *)
(*   - the evaluation scripts: upload, evaluation, run, polling loop and   *)
(*     score aggregation (run_evaluation_with_dataset.py and the polling   *)
(*     loops of the two other scripts).                                    *)
(*                                                                         *)
(* Conventions.  A JSON object is the set of its <<key, value>> pairs.     *)
(* JSON text is a record [text, value]: text = "json" for well-formed text *)
(* that parses to value, "garbage" for text json.loads rejects.  Python's  *)
(* None is the string "None".  f-strings are string concatenations.        *)
(* Wall-clock values (timestamps in messages, the time-derived run_id) are *)
(* left out of messages; where a function embeds the clock in its result   *)
(* the clock reading is an input.                                          *)
(***************************************************************************)
EXTENDS Integers, Sequences, FiniteSets, TLC

VARIABLES
    \* ---- generate_test_dataset / the calling script
    variant,            \* which script's driver runs
    queries,            \* the queries handed to generate_test_dataset
    qidx,               \* index of the query being processed (1-based)
    test_data,          \* records collected so far (projected on "query")
    sleeps,             \* number of time.sleep(1) calls executed
    outcomes,           \* per processed query: how its driver call ended
    pc,                 \* position of the script
    \* ---- locals of the driver
    response_messages,  \* the transcript
    input_list,         \* function_call_output entries for the next request
    tool_calls_made,
    function_results,   \* call_id -> result, as a set of <<call_id, result>>
    iteration,
    current_response,   \* last response received ([id, output, output_text])
    result,             \* the record returned by the driver
    \* ---- what the stubbed endpoint and the callables observed
    requests,           \* every client.responses.create call, in order
    executed,           \* every local callable invocation, in order
    \* ---- direct application of a function (a business function, or
    \*      build_testing_criteria) to its argument
    fn_pc, fn_name, fn_args, fn_now, fn_result,
    \* ---- generate_agent_test_dataset.main
    main_pc,            \* position of main
    created,            \* remote resources created so far
    deletions,          \* deletions attempted, in order, with their outcome
    saved,              \* what save_dataset wrote (<<>> before it ran)
    \* ---- two runs of execute_agent_query against one sequence of responses
    twin_feed,          \* the stubbed responses, in the order they are served
    twin_now,           \* the clock reading of each run
    twin,               \* the locals of each run
    \* ---- the evaluation scripts
    script,             \* which script runs
    ev_pc,              \* position of its main
    dataset_exists,     \* os.path.exists(dataset_file)
    remote_ops,         \* every remote operation performed, in order
    run_status,         \* status of the last run retrieved
    ev_sleeps,          \* number of time.sleep calls of the polling loop
    output_items,       \* the output items listed
    report              \* evaluator name -> reported value

vars == <<variant, queries, qidx, test_data, sleeps, outcomes, pc,
          response_messages, input_list, tool_calls_made, function_results,
          iteration, current_response, result, requests, executed,
          fn_pc, fn_name, fn_args, fn_now, fn_result,
          main_pc, created, deletions, saved, twin_feed, twin_now, twin,
          script, ev_pc, dataset_exists, remote_ops, run_status, ev_sleeps,
          output_items, report>>

driver_vars == <<variant, queries, qidx, test_data, sleeps, outcomes, pc,
                 response_messages, input_list, tool_calls_made,
                 function_results, iteration, current_response, result,
                 requests, executed>>

fn_vars == <<fn_pc, fn_name, fn_args, fn_now, fn_result>>

main_vars == <<main_pc, created, deletions, saved>>

twin_vars == <<twin_feed, twin_now, twin>>

eval_vars == <<script, ev_pc, dataset_exists, remote_ops, run_status, ev_sleeps,
               output_items, report>>

None == "None"

-----------------------------------------------------------------------------
(* JSON objects as sets of <<key, value>> pairs *)

Keys(obj) == { p[1] : p \in obj }

HasKey(obj, k) == k \in Keys(obj)

Get(obj, k) == (CHOOSE p \in obj : p[1] = k)[2]

\* keyword argument k, or the parameter's default when it is not passed
Arg(obj, k, default) == IF HasKey(obj, k) THEN Get(obj, k) ELSE default

\* json.dumps / json.loads
JsonDumps(v) == [text |-> "json", value |-> v]

JsonParses(s) == s.text = "json"

JsonLoads(s) == s.value

-----------------------------------------------------------------------------
(* business_functions.py *)

orders ==
    "ORD-2024-5678" :>
        [ status |-> "In Transit",
          items |-> << [name |-> "Samsung 55-inch 4K Smart TV", quantity |-> 1] >>,
          tracking |-> "TRK-987654321",
          estimated_delivery |-> "February 5, 2026",
          location |-> "Distribution center, Seattle, WA",
          order_date |-> "January 28, 2026",
          total |-> "$708.48" ]
    @@
    "ORD-2024-1234" :>
        [ status |-> "Delivered",
          items |-> << [name |-> "Sony WH-1000XM5 Headphones", quantity |-> 1] >>,
          tracking |-> "TRK-123456789",
          estimated_delivery |-> "January 30, 2026",
          location |-> "Delivered",
          order_date |-> "January 25, 2026",
          total |-> "$399.99" ]

\* a lookup that never finds the order
check_order_status_never_found(order_number) ==
    [error |-> "Order not found", order_number |-> order_number]

check_order_status(order_number) ==
    IF order_number \in DOMAIN orders
    THEN orders[order_number]
    ELSE [error |-> "Order not found", order_number |-> order_number]

\* a refund that issues a refund id even when the order is not found
process_refund_stamps_failure(order_number, reason, now) ==
    LET order_data == check_order_status(order_number) IN
    IF "error" \in DOMAIN order_data
    THEN [ success |-> FALSE,
           message |-> "Order " \o order_number \o " not found in system",
           refund_id |-> "RFD-" \o now ]
    ELSE [ success |-> TRUE,
           message |-> "Refund processed successfully for order " \o order_number,
           refund_id |-> "RFD-" \o now,
           amount |-> order_data.total,
           processing_time |-> "5-7 business days",
           reason |-> IF reason /= "" THEN reason ELSE "Customer request" ]

process_refund(order_number, reason, now) ==
    LET order_data == check_order_status(order_number) IN
    IF "error" \in DOMAIN order_data
    THEN [ success |-> FALSE,
           message |-> "Order " \o order_number \o " not found in system",
           refund_id |-> None ]
    ELSE [ success |-> TRUE,
           message |-> "Refund processed successfully for order " \o order_number,
           refund_id |-> "RFD-" \o now,
           amount |-> order_data.total,
           processing_time |-> "5-7 business days",
           reason |-> IF reason /= "" THEN reason ELSE "Customer request" ]

\* a test of line 74 that lets a delivered order be canceled
already_shipped_in_transit_only(status) == status \in {"Shipped", "In Transit"}

\* order_data["status"] in ["Shipped", "In Transit", "Delivered"]
already_shipped(status) == status \in {"Shipped", "In Transit", "Delivered"}

\* cancel_order from the lookup on: what it decides on the order data that
\* check_order_status returned
cancel_order_on(order_data, order_number) ==
    IF "error" \in DOMAIN order_data
    THEN [ success |-> FALSE,
           message |-> "Order " \o order_number \o " not found" ]
    ELSE IF already_shipped(order_data.status)
    THEN [ success |-> FALSE,
           message |-> "Order " \o order_number
                         \o " has already shipped. Please initiate a return instead.",
           status |-> order_data.status ]
    ELSE [ success |-> TRUE,
           message |-> "Order " \o order_number \o " has been canceled successfully",
           refund_processing |-> "3-5 business days" ]

cancel_order(order_number) ==
    cancel_order_on(check_order_status(order_number), order_number)

\* datetime.now().isoformat() of a clock reading given as %Y%m%d%H%M%S
isoformat(now) ==
    CASE now = "20260101093000" -> "2026-01-01T09:30:00"
      [] now = "20260101093001" -> "2026-01-01T09:30:01"

send_email(to, subject, body, cc, now) ==
    [ success |-> TRUE,
      message |-> "Email sent successfully to " \o to,
      message_id |-> "MSG-" \o now,
      to |-> to,
      subject |-> subject,
      sent_at |-> isoformat(now),
      cc |-> IF cc /= "" THEN cc ELSE None ]

\* updates is the object of the keywords other than customer_id; the list
\* updated_fields is kept as the set of its entries
update_customer_profile_salesforce(customer_id, updates, now) ==
    [ success |-> TRUE,
      message |-> "Customer profile updated successfully in Salesforce",
      customer_id |-> IF customer_id \notin {None, ""} THEN customer_id
                      ELSE "SF-" \o now,
      updated_fields |-> { p[1] \o ": " \o p[2] : p \in updates },
      synced_systems |-> << "Salesforce CRM", "Contoso Order Management",
                            "Email Notification Service" >>,
      timestamp |-> isoformat(now) ]

get_customer_profile_crm(customer_id, email) ==
    [ customer_id |-> IF customer_id \notin {None, ""} THEN customer_id
                      ELSE "CRM-12345",
      email |-> IF email \notin {None, ""} THEN email ELSE "customer@example.com",
      name |-> "John Smith",
      phone |-> "(555) 123-4567",
      address |-> "123 Main Street, Seattle, WA 98101",
      loyalty_tier |-> "Gold",
      lifetime_value |-> "$2,450.00",
      orders_count |-> 8,
      last_order_date |-> "January 28, 2026" ]

create_support_ticket_erp(issue_type, description, priority, now) ==
    [ success |-> TRUE,
      ticket_id |-> "TKT-" \o now,
      issue_type |-> issue_type,
      description |-> description,
      priority |-> priority,
      status |-> "Open",
      assigned_to |-> "Support Team",
      created_at |-> isoformat(now),
      sla_response_time |-> IF priority = "high" THEN "4 hours" ELSE "24 hours" ]

inventory ==
    << << "Samsung 55-inch 4K Smart TV",
          [online |-> 45, seattle |-> 12, new_york |-> 8] >>,
       << "Sony WH-1000XM5 Headphones",
          [online |-> 120, seattle |-> 25, new_york |-> 30] >>,
       << "Dell XPS 15 Laptop",
          [online |-> 35, seattle |-> 8, new_york |-> 15] >> >>

\* str.lower() on the strings the model passes through it
lower(str) ==
    CASE str = "Samsung 55-inch 4K Smart TV" -> "samsung 55-inch 4k smart tv"
      [] str = "Sony WH-1000XM5 Headphones" -> "sony wh-1000xm5 headphones"
      [] str = "Dell XPS 15 Laptop" -> "dell xps 15 laptop"
      [] str = "Dell XPS" -> "dell xps"
      [] str = "iPhone 15" -> "iphone 15"
      [] str = "Online" -> "online"
      [] str = "Seattle" -> "seattle"
      [] OTHER -> str

\* needle in hay, on lowered strings: the empty string is in every string, a
\* string is in itself, and "dell xps" is in "dell xps 15 laptop"
contains(hay, needle) ==
    \/ needle = ""
    \/ needle = hay
    \/ <<needle, hay>> \in { <<"dell xps", "dell xps 15 laptop">> }

\* for product, stock in inventory.items(): the first product that matches
RECURSIVE first_match(_, _)
first_match(product_name, i) ==
    IF i > Len(inventory) THEN 0
    ELSE IF contains(lower(inventory[i][1]), lower(product_name)) THEN i
    ELSE first_match(product_name, i + 1)

check_product_availability(product_name, store_location) ==
    LET i == first_match(product_name, 1) IN
    IF i /= 0
    THEN [ product |-> inventory[i][1],
           available |-> TRUE,
           stock_levels |-> inventory[i][2],
           estimated_delivery |-> IF lower(store_location) = "online"
                                  THEN "2-3 business days" ELSE "Same day pickup" ]
    ELSE [ product |-> product_name,
           available |-> FALSE,
           message |-> "Product not found or out of stock" ]

\* str.capitalize() on the strings the model passes through it
capitalize(str) ==
    CASE str = "morning" -> "Morning"
      [] str = "afternoon" -> "Afternoon"
      [] OTHER -> str

schedule_installation(order_number, preferred_date, time_slot, now) ==
    [ success |-> TRUE,
      confirmation_number |-> "INST-" \o now,
      order_number |-> order_number,
      scheduled_date |-> preferred_date,
      time_slot |-> IF time_slot = "morning"
                    THEN capitalize(time_slot) \o " (8AM-12PM)"
                    ELSE capitalize(time_slot) \o " (1PM-5PM)",
      technician |-> "Contoso Certified Installer",
      contact |-> "1-800-CONTOSO",
      message |-> "Installation scheduled successfully. You will receive a confirmation email and SMS reminder 24 hours before." ]

process_warranty_claim(product_id, issue_description, now) ==
    [ success |-> TRUE,
      claim_id |-> "WRN-" \o now,
      product_id |-> product_id,
      issue |-> issue_description,
      status |-> "Under Review",
      next_steps |-> "Our warranty team will contact you within 24-48 hours to assess the claim",
      estimated_resolution |-> "5-7 business days",
      coverage_verified |-> TRUE ]

\* Map function names to implementations: the keys, with each callable's
\* signature (required parameters, parameters with a default, **kwargs)
Sig(req, opt, kw) == [required |-> req, optional |-> opt, var_kw |-> kw]

\* a registry that lacks process_warranty_claim
AVAILABLE_FUNCTIONS_without_warranty_claim ==
    "check_order_status" :> Sig({"order_number"}, {}, FALSE)
    @@ "process_refund" :> Sig({"order_number"}, {"reason"}, FALSE)
    @@ "cancel_order" :> Sig({"order_number"}, {}, FALSE)
    @@ "send_email" :> Sig({"to", "subject", "body"}, {"cc"}, FALSE)
    @@ "update_customer_profile_salesforce" :> Sig({}, {"customer_id"}, TRUE)
    @@ "get_customer_profile_crm" :> Sig({}, {"customer_id", "email"}, FALSE)
    @@ "create_support_ticket_erp" :>
           Sig({"issue_type", "description"}, {"priority"}, FALSE)
    @@ "check_product_availability" :>
           Sig({"product_name"}, {"store_location"}, FALSE)
    @@ "schedule_installation" :>
           Sig({"order_number", "preferred_date"}, {"time_slot"}, FALSE)

AVAILABLE_FUNCTIONS ==
    "check_order_status" :> Sig({"order_number"}, {}, FALSE)
    @@ "process_refund" :> Sig({"order_number"}, {"reason"}, FALSE)
    @@ "cancel_order" :> Sig({"order_number"}, {}, FALSE)
    @@ "send_email" :> Sig({"to", "subject", "body"}, {"cc"}, FALSE)
    @@ "update_customer_profile_salesforce" :> Sig({}, {"customer_id"}, TRUE)
    @@ "get_customer_profile_crm" :> Sig({}, {"customer_id", "email"}, FALSE)
    @@ "create_support_ticket_erp" :>
           Sig({"issue_type", "description"}, {"priority"}, FALSE)
    @@ "check_product_availability" :>
           Sig({"product_name"}, {"store_location"}, FALSE)
    @@ "schedule_installation" :>
           Sig({"order_number", "preferred_date"}, {"time_slot"}, FALSE)
    @@ "process_warranty_claim" :>
           Sig({"product_id", "issue_description"}, {}, FALSE)

-----------------------------------------------------------------------------
(* tool_schemas.py: every property of every schema is {"type": "string"}    *)

Schema(name, props, req) ==
    [name |-> name, properties |-> props, required |-> req,
     additionalProperties |-> FALSE]

FUNCTION_TOOL_SCHEMAS ==
    "check_order_status" :> Schema("check_order_status", {"order_number"}, {"order_number"})
    @@ "process_refund" :>
           Schema("process_refund", {"order_number", "reason"}, {"order_number", "reason"})
    @@ "cancel_order" :> Schema("cancel_order", {"order_number"}, {"order_number"})
    @@ "send_email" :>
           Schema("send_email", {"to", "subject", "body", "cc"}, {"to", "subject", "body", "cc"})
    @@ "update_customer_profile_salesforce" :>
           Schema("update_customer_profile_salesforce", {"customer_id", "phone", "email", "address"},
                  {"customer_id", "phone", "email", "address"})
    @@ "get_customer_profile_crm" :>
           Schema("get_customer_profile_crm", {"customer_id", "email"}, {"customer_id", "email"})
    @@ "create_support_ticket_erp" :>
           Schema("create_support_ticket_erp", {"issue_type", "description", "priority"},
                  {"issue_type", "description", "priority"})
    @@ "check_product_availability" :>
           Schema("check_product_availability", {"product_name", "store_location"},
                  {"product_name", "store_location"})
    @@ "schedule_installation" :>
           Schema("schedule_installation", {"order_number", "preferred_date", "time_slot"},
                  {"order_number", "preferred_date", "time_slot"})
    @@ "process_warranty_claim" :>
           Schema("process_warranty_claim", {"product_id", "issue_description"},
                  {"product_id", "issue_description"})

\* an argument object (all values strings) validates against a schema
Validates(schema, args) ==
    /\ schema.required \subseteq Keys(args)
    /\ schema.additionalProperties \/ Keys(args) \subseteq schema.properties

-----------------------------------------------------------------------------
(* tool_call_accuracy.py / comprehensive_agent_evaluation.py: their own     *)
(* functions and registry                                                   *)

weather_data ==
    "New York" :> [temperature |-> "72F", condition |-> "Sunny", humidity |-> "45%"]
    @@ "Seattle" :> [temperature |-> "58F", condition |-> "Rainy", humidity |-> "80%"]
    @@ "San Francisco" :>
           [temperature |-> "65F", condition |-> "Foggy", humidity |-> "70%"]
    @@ "Chicago" :> [temperature |-> "55F", condition |-> "Cloudy", humidity |-> "60%"]

get_weather(location) ==
    IF location \in DOMAIN weather_data
    THEN weather_data[location]
    ELSE [temperature |-> "70F", condition |-> "Clear", humidity |-> "50%"]

TCA_AVAILABLE_FUNCTIONS ==
    "get_weather" :> Sig({"location"}, {}, FALSE)
    @@ "search_database" :> Sig({"query", "table"}, {}, FALSE)
    @@ "send_email" :> Sig({"to", "subject"}, {"body"}, FALSE)

COMP_AVAILABLE_FUNCTIONS ==
    "get_weather" :> Sig({"location"}, {}, FALSE)
    @@ "search_database" :> Sig({"query", "table"}, {}, FALSE)
    @@ "send_email" :> Sig({"to", "subject", "body"}, {}, FALSE)

-----------------------------------------------------------------------------
(* Calling a registered callable with the parsed arguments as keywords:     *)
(* Python binds the keyword arguments to                                    *)
(* the signature (TypeError on an unexpected or a missing argument), then   *)
(* runs the body.  A call yields [raised, value]: the returned value, or    *)
(* str(e) of the exception.                                                 *)

Returned(v) == [raised |-> FALSE, value |-> v]

Raised(msg) == [raised |-> TRUE, value |-> msg]

\* a binding that rejects undeclared keywords even where the callable takes
\* **kwargs
Unexpected_without_var_kw(sig, args) ==
    Keys(args) \ (sig.required \cup sig.optional)

Unexpected(sig, args) ==
    IF sig.var_kw THEN {} ELSE Keys(args) \ (sig.required \cup sig.optional)

Missing(sig, args) == sig.required \ Keys(args)

\* the body a name stands for; `now` is the clock reading a body embeds
FunctionBody(name, args, now) ==
    CASE name = "check_order_status" ->
             check_order_status(Get(args, "order_number"))
      [] name = "process_refund" ->
             process_refund(Get(args, "order_number"), Arg(args, "reason", ""), now)
      [] name = "cancel_order" ->
             cancel_order(Get(args, "order_number"))
      [] name = "send_email" ->
             send_email(Get(args, "to"), Get(args, "subject"), Get(args, "body"),
                        Arg(args, "cc", ""), now)
      [] name = "update_customer_profile_salesforce" ->
             update_customer_profile_salesforce(
                 Arg(args, "customer_id", None),
                 { p \in args : p[1] /= "customer_id" }, now)
      [] name = "get_customer_profile_crm" ->
             get_customer_profile_crm(Arg(args, "customer_id", None),
                                      Arg(args, "email", None))
      [] name = "create_support_ticket_erp" ->
             create_support_ticket_erp(Get(args, "issue_type"),
                                       Get(args, "description"),
                                       Arg(args, "priority", "medium"), now)
      [] name = "check_product_availability" ->
             check_product_availability(Get(args, "product_name"),
                                        Arg(args, "store_location", "Online"))
      [] name = "schedule_installation" ->
             schedule_installation(Get(args, "order_number"),
                                   Get(args, "preferred_date"),
                                   Arg(args, "time_slot", "morning"), now)
      [] name = "process_warranty_claim" ->
             process_warranty_claim(Get(args, "product_id"),
                                    Get(args, "issue_description"), now)
      [] name = "get_weather" ->
             get_weather(Get(args, "location"))

CallFunction(registry, name, args, now) ==
    LET sig == registry[name] IN
    IF Unexpected(sig, args) /= {}
    THEN Raised(name \o "() got an unexpected keyword argument '"
                  \o (CHOOSE k \in Unexpected(sig, args) : TRUE) \o "'")
    ELSE IF Missing(sig, args) /= {}
    THEN Raised(name \o "() missing required positional argument: '"
                  \o (CHOOSE k \in Missing(sig, args) : TRUE) \o "'")
    ELSE Returned(FunctionBody(name, args, now))

-----------------------------------------------------------------------------
(* Direct application of a registered business function to an argument      *)
(* object (specification FnSpec)                                            *)

OrderNumbers == {"ORD-2024-5678", "ORD-2024-1234", "ORD-0000-0000", "ORD-2024-567"}

Reasons == {"", "Damaged item"}

Clock == {"20260101093000", "20260101093001"}

FnNames == DOMAIN AVAILABLE_FUNCTIONS

ProductNames == {"Sony WH-1000XM5 Headphones", "Dell XPS", "", "iPhone 15"}

\* values tried for a keyword
ArgValues(k) ==
    CASE k = "order_number" -> OrderNumbers
      [] k = "reason" -> Reasons
      [] k = "product_name" -> ProductNames
      [] k = "store_location" -> {"Online", "Seattle"}
      [] k = "time_slot" -> {"morning", "afternoon"}
      [] k = "priority" -> {"high", "low"}
      [] k = "cc" -> {"", "x"}
      [] k = "customer_id" -> {"", "x"}
      [] OTHER -> {"x"}

\* every argument object over the keywords ks
RECURSIVE ObjectsOver(_)
ObjectsOver(ks) ==
    IF ks = {} THEN {{}}
    ELSE LET k == CHOOSE x \in ks : TRUE
             rest == ObjectsOver(ks \ {k})
         IN rest \cup { o \cup {<<k, v>>} : o \in rest, v \in ArgValues(k) }

\* the argument objects tried for a function: any subset of its parameters
\* and of the properties of its schema, with or without a keyword that
\* neither declares
ArgObjects(name) ==
    LET sig == AVAILABLE_FUNCTIONS[name] IN
    ObjectsOver(sig.required \cup sig.optional
                \cup FUNCTION_TOOL_SCHEMAS[name].properties \cup {"unexpected"})

FnIdle ==
    /\ fn_pc = "idle" /\ fn_name = None /\ fn_args = {} /\ fn_now = None
    /\ fn_result = None

FnCallReturns ==
    /\ fn_pc = "ready"
    /\ ~CallFunction(AVAILABLE_FUNCTIONS, fn_name, fn_args, fn_now).raised
    /\ fn_result' = CallFunction(AVAILABLE_FUNCTIONS, fn_name, fn_args, fn_now).value
    /\ fn_pc' = "returned"
    /\ UNCHANGED <<fn_name, fn_args, fn_now, driver_vars, main_vars, twin_vars,
                   eval_vars>>

FnCallRaises ==
    /\ fn_pc = "ready"
    /\ CallFunction(AVAILABLE_FUNCTIONS, fn_name, fn_args, fn_now).raised
    /\ fn_result' = CallFunction(AVAILABLE_FUNCTIONS, fn_name, fn_args, fn_now).value
    /\ fn_pc' = "raised"
    /\ UNCHANGED <<fn_name, fn_args, fn_now, driver_vars, main_vars, twin_vars,
                   eval_vars>>

FnNext == FnCallReturns \/ FnCallRaises

-----------------------------------------------------------------------------
(* The stubbed remote endpoint                                              *)

MaxItems == 2           \* output items in the initial response of a query
MaxFollowUpItems == 1   \* output items in the first follow-up response
MaxQueries == 2         \* queries handed to generate_test_dataset

Variants == {"agent_helpers", "tool_call_accuracy", "comprehensive"}

Registry(v) ==
    CASE v = "agent_helpers" -> AVAILABLE_FUNCTIONS
      [] v = "tool_call_accuracy" -> TCA_AVAILABLE_FUNCTIONS
      [] v = "comprehensive" -> COMP_AVAILABLE_FUNCTIONS

TEST_QUERIES ==
    << "I need to check the status of my order #ORD-2024-5678. Can you help me track it?",
       "What's the return policy for headphones purchased from Contoso Electronics?",
       "Send an email to manager@example.com about my laptop order delay",
       "Cancel my order #ORD-2024-5678 and give me a refund",
       "Can you update my customer profile in Salesforce with my new phone number (555) 123-4567?",
       "What are the key features of the Sony WH-1000XM5 noise-canceling headphones?",
       "Process a refund for order #ORD-2024-1234",
       "What's the warranty coverage for the Dell XPS 15 laptop?",
       "Check if Samsung 55-inch 4K Smart TV is available in Seattle store",
       "Schedule installation for my order #ORD-2024-5678 on February 10, 2026 in the morning" >>

CallIds == {"call_1", "call_2"}

FunctionCall(id, name, arguments) ==
    [type |-> "function_call", call_id |-> id, name |-> name,
     arguments |-> arguments, queries |-> <<>>]

FileSearchCall ==
    [type |-> "file_search_call", call_id |-> "fs_1", name |-> None,
     arguments |-> JsonDumps({}), queries |-> <<"return policy">>]

AzureSearchCall ==
    [type |-> "azure_ai_search_call", call_id |-> "as_1", name |-> None,
     arguments |-> JsonDumps({<<"query", "tv stock">>}), queries |-> <<>>]

Garbage == [text |-> "garbage", value |-> {}]

OrderArgs == JsonDumps({<<"order_number", "ORD-2024-5678">>})

WeatherArgs == JsonDumps({<<"location", "Seattle">>})

NoArgs == JsonDumps({})

\* The (name, arguments) pairs the stub asks for: a call that returns, a call
\* whose keyword binding raises TypeError, a name the script's registry does
\* not hold.
StubCalls(v) ==
    IF v = "agent_helpers"
    THEN { <<"check_order_status", OrderArgs>>, <<"check_order_status", NoArgs>>,
           <<"get_weather", WeatherArgs>> }
    ELSE { <<"get_weather", WeatherArgs>>, <<"get_weather", NoArgs>>,
           <<"check_order_status", OrderArgs>> }

StubItems(v) ==
    { FunctionCall(id, c[1], c[2]) : id \in CallIds, c \in StubCalls(v) }
    \cup { FileSearchCall, AzureSearchCall }
    \cup { FunctionCall("call_1", "check_order_status", Garbage) }

\* the standing request of a stub that never stops asking
PlainItem(v) ==
    IF v = "agent_helpers"
    THEN FunctionCall("call_1", "check_order_status", OrderArgs)
    ELSE FunctionCall("call_1", "get_weather", WeatherArgs)

SeqsUpTo(S, n) == UNION { [1..k -> S] : k \in 0..n }

\* the previous output again, its function calls under fresh call ids
Repeat(prev, n) ==
    [ i \in 1..Len(prev) |->
        IF prev[i].type = "function_call"
        THEN [prev[i] EXCEPT !.call_id = "call_" \o ToString(n) \o "_" \o ToString(i)]
        ELSE prev[i] ]

\* The output lists the stub may answer request number n (0 = the initial
\* request) of query number q with, prev being its previous output.  The
\* first query's initial response and first follow-up range over every item
\* list within the bounds; a later query starts with the standing request or
\* a final answer; every other response is final (no item) or asks the
\* previous response's calls again under fresh call ids.
StubOutputs(v, q, n, prev) ==
    IF q = 1 /\ n = 0 THEN SeqsUpTo(StubItems(v), MaxItems)
    ELSE IF q = 1 /\ n = 1 THEN SeqsUpTo(StubItems(v), MaxFollowUpItems)
    ELSE IF n = 0 THEN { <<>>, <<PlainItem(v)>> }
    ELSE { <<>>, Repeat(prev, n) }

OutputTexts == {"", "Here is what I found."}

Response(id, output, text) == [id |-> id, output |-> output, output_text |-> text]

NoResponse == Response(0, <<>>, "")

Request(kind, input, previous_response_id) ==
    [kind |-> kind, input |-> input, previous_response_id |-> previous_response_id]

-----------------------------------------------------------------------------
(* agent_helpers.py *)

EmptyDict == [k \in {} |-> None]

\* d[k] = v
Put(d, k, v) == (k :> v) @@ d

build_message_object(role, content, tool_call_id) ==
    [role |-> role, content |-> content,
     tool_call_id |-> IF tool_call_id /= "" THEN tool_call_id ELSE None]

max_iterations == 5

DriverClock == "20260101093000"

\* a scan that starts from the outputs already built (input_list not reset)
Locals_keeps_input_list(tcm, fr, ex) ==
    [tool_calls_made |-> tcm, function_results |-> fr, executed |-> ex,
     assistant_content |-> <<>>, input_list |-> input_list, raised |-> FALSE,
     now |-> DriverClock]

\* the driver's accumulators while it scans one response, and the clock
\* reading the callables see during the scan
Locals(tcm, fr, ex) ==
    [tool_calls_made |-> tcm, function_results |-> fr, executed |-> ex,
     assistant_content |-> <<>>, input_list |-> <<>>, raised |-> FALSE,
     now |-> DriverClock]

FunctionCallOutput(call_id, output) ==
    [type |-> "function_call_output", call_id |-> call_id, output |-> output]

\* the try branch: the callable returned
RecordReturned(st, call_id, value) ==
    [st EXCEPT !.function_results = Put(@, call_id, value),
               !.input_list = Append(@, FunctionCallOutput(call_id, JsonDumps(value)))]

\* an except branch that feeds the error back without recording it
RecordRaised_no_result(st, call_id, message) ==
    [st EXCEPT !.input_list = Append(@, FunctionCallOutput(call_id,
                                         JsonDumps([error |-> message])))]

\* an except branch that only prints the error
RecordRaised_swallowed(st, call_id, message) == st

\* the except branch: the callable raised, message is str(e)
RecordRaised(st, call_id, message) ==
    [st EXCEPT !.function_results = Put(@, call_id, [error |-> message]),
               !.input_list = Append(@, FunctionCallOutput(call_id,
                                         JsonDumps([error |-> message])))]

\* an else branch that answers an unknown tool name with an error result
SkipUnregistered_answers(st, item) ==
    [st EXCEPT !.input_list = Append(@, FunctionCallOutput(item.call_id,
                                         JsonDumps([error |-> "Unknown tool"])))]

\* a driver that notes a function call only when its name is registered
SkipUnregistered_forgets_call(st, item) ==
    [st EXCEPT !.tool_calls_made = SubSeq(@, 1, Len(@) - 1)]

\* item.name is not in AVAILABLE_FUNCTIONS: there is no else branch
SkipUnregistered(st, item) == st

\* a driver whose json.loads sits inside the per-call try block
HandleFunctionCall_parse_in_try(st, item) ==
    IF ~JsonParses(item.arguments)
    THEN RecordRaised(st, item.call_id, "Expecting value: line 1 column 1 (char 0)")
    ELSE
    LET parsed_args == JsonLoads(item.arguments)
        noted == [st EXCEPT
                    !.tool_calls_made = Append(@,
                        [type |-> "function_call", tool_call_id |-> item.call_id,
                         name |-> item.name, arguments |-> parsed_args]),
                    !.assistant_content = Append(@,
                        [type |-> "tool_call", tool_call_id |-> item.call_id,
                         name |-> item.name, arguments |-> parsed_args])]
    IN
    IF item.name \in DOMAIN AVAILABLE_FUNCTIONS
    THEN LET call == CallFunction(AVAILABLE_FUNCTIONS, item.name, parsed_args,
                                  st.now)
             ran == [noted EXCEPT
                       !.executed = Append(@, [name |-> item.name,
                                               call_id |-> item.call_id,
                                               arguments |-> parsed_args,
                                               raised |-> call.raised])]
         IN IF call.raised
            THEN RecordRaised(ran, item.call_id, call.value)
            ELSE RecordReturned(ran, item.call_id, call.value)
    ELSE SkipUnregistered(noted, item)

\* one function_call item of execute_agent_query
HandleFunctionCall(st, item) ==
    IF ~JsonParses(item.arguments) THEN [st EXCEPT !.raised = TRUE]
    ELSE
    LET parsed_args == JsonLoads(item.arguments)
        noted == [st EXCEPT
                    !.tool_calls_made = Append(@,
                        [type |-> "function_call", tool_call_id |-> item.call_id,
                         name |-> item.name, arguments |-> parsed_args]),
                    !.assistant_content = Append(@,
                        [type |-> "tool_call", tool_call_id |-> item.call_id,
                         name |-> item.name, arguments |-> parsed_args])]
    IN
    IF item.name \in DOMAIN AVAILABLE_FUNCTIONS
    THEN LET call == CallFunction(AVAILABLE_FUNCTIONS, item.name, parsed_args,
                                  st.now)
             ran == [noted EXCEPT
                       !.executed = Append(@, [name |-> item.name,
                                               call_id |-> item.call_id,
                                               arguments |-> parsed_args,
                                               raised |-> call.raised])]
         IN IF call.raised
            THEN RecordRaised(ran, item.call_id, call.value)
            ELSE RecordReturned(ran, item.call_id, call.value)
    ELSE SkipUnregistered(noted, item)

\* one output item of execute_agent_query
HandleItem(st, item) ==
    IF item.type = "file_search_call"
    THEN [st EXCEPT !.tool_calls_made = Append(@,
             [type |-> "file_search", tool_call_id |-> item.call_id,
              queries |-> item.queries])]
    ELSE IF item.type = "azure_ai_search_call"
    THEN IF ~JsonParses(item.arguments) THEN [st EXCEPT !.raised = TRUE]
         ELSE LET args == JsonLoads(item.arguments) IN
              [st EXCEPT !.tool_calls_made = Append(@,
                  [type |-> "azure_ai_search", tool_call_id |-> item.call_id,
                   query |-> Arg(args, "query", ""), arguments |-> args])]
    ELSE IF item.type = "function_call"
    THEN HandleFunctionCall(st, item)
    ELSE st

\* for item in response.output: ... (an exception ends the scan)
RECURSIVE ScanOutput(_, _)
ScanOutput(st, items) ==
    IF items = <<>> \/ st.raised THEN st
    ELSE ScanOutput(HandleItem(st, Head(items)), Tail(items))

\* for tool_call in assistant_content: a tool message when its id has a result
RECURSIVE ToolResultMessages(_, _)
ToolResultMessages(content, fr) ==
    IF content = <<>> THEN <<>>
    ELSE LET tool_call_id == Head(content).tool_call_id IN
         (IF tool_call_id \in DOMAIN fr
          THEN << build_message_object("tool",
                     << [type |-> "tool_result", tool_result |-> fr[tool_call_id]] >>,
                     tool_call_id) >>
          ELSE <<>>)
         \o ToolResultMessages(Tail(content), fr)

\* a turn that puts the tool results before the assistant message
AppendTurn_results_first(messages, content, fr) ==
    IF content = <<>> THEN messages
    ELSE (messages \o ToolResultMessages(content, fr))
         \o << build_message_object("assistant", content, "") >>

\* "Add assistant message with tool calls if any" and its tool results
AppendTurn(messages, content, fr) ==
    IF content = <<>> THEN messages
    ELSE Append(messages, build_message_object("assistant", content, ""))
         \o ToolResultMessages(content, fr)

\* a loop without the iteration ceiling
LoopGuard_unbounded(il, it) == il /= <<>>

\* while input_list and iteration < max_iterations
LoopGuard(il, it) == il /= <<>> /\ it < max_iterations

\* an optional value: <<>> is None, <<v>> is v
Some(v) == <<v>>

NoResult ==
    [query |-> "", response |-> <<>>, tool_calls |-> <<>>, ground_truth |-> ""]

\* the driver's locals before a call and after its frame is gone
LocalsCleared ==
    /\ response_messages' = <<>>
    /\ input_list' = <<>>
    /\ tool_calls_made' = <<>>
    /\ function_results' = EmptyDict
    /\ iteration' = 0
    /\ current_response' = NoResponse
    /\ result' = NoResult
    /\ requests' = <<>>
    /\ executed' = <<>>

\* a handler that keeps a record for the failed query
QueryFailed_keeps_record(cause) ==
    /\ outcomes' = Append(outcomes,
                          [status |-> "raised", cause |-> cause,
                           requests |-> Len(requests) + 1])
    /\ test_data' = Append(test_data, queries[qidx])
    /\ qidx' = qidx + 1
    /\ pc' = "idle"
    /\ LocalsCleared
    /\ UNCHANGED <<variant, queries, sleeps, fn_vars, main_vars, twin_vars, eval_vars>>

\* an exception leaves execute_agent_query: generate_test_dataset prints it and
\* continues with the next query (no append, no sleep)
QueryFailed(cause) ==
    /\ outcomes' = Append(outcomes,
                          [status |-> "raised", cause |-> cause,
                           requests |-> Len(requests) + 1])
    /\ qidx' = qidx + 1
    /\ pc' = "idle"
    /\ LocalsCleared
    /\ UNCHANGED <<variant, queries, test_data, sleeps, fn_vars, main_vars, twin_vars, eval_vars>>

\* initial request, scan of the initial response, first turn of the transcript
SendQuery ==
    /\ variant = "agent_helpers" /\ pc = "idle" /\ qidx <= Len(queries)
    /\ \E output \in StubOutputs(variant, qidx, 0, <<>>), text \in OutputTexts :
         LET st == ScanOutput(Locals(<<>>, EmptyDict, <<>>), output) IN
         /\ ~st.raised
         /\ requests' = << Request("query", queries[qidx], None) >>
         /\ current_response' = Response(1, output, text)
         /\ tool_calls_made' = st.tool_calls_made
         /\ function_results' = st.function_results
         /\ executed' = st.executed
         /\ input_list' = st.input_list
         /\ response_messages' =
                AppendTurn(<<>>, st.assistant_content, st.function_results)
    /\ iteration' = 0
    /\ pc' = "loop"
    /\ UNCHANGED <<variant, queries, qidx, test_data, sleeps, outcomes, result,
                   fn_vars, main_vars, twin_vars, eval_vars>>

\* client.responses.create raises on the initial request
SendQueryRemoteRaises ==
    /\ variant = "agent_helpers" /\ pc = "idle" /\ qidx <= Len(queries)
    /\ QueryFailed("remote")

\* json.loads raises on an item of the initial response
SendQueryParseRaises ==
    /\ variant = "agent_helpers" /\ pc = "idle" /\ qidx <= Len(queries)
    /\ \E output \in StubOutputs(variant, qidx, 0, <<>>) :
         ScanOutput(Locals(<<>>, EmptyDict, <<>>), output).raised
    /\ QueryFailed("json")

\* one pass of the while loop: follow-up request, scan, turn of the transcript
LoopIteration ==
    /\ variant = "agent_helpers" /\ pc = "loop"
    /\ LoopGuard(input_list, iteration)
    /\ \E output \in StubOutputs(variant, qidx, Len(requests),
                                current_response.output), text \in OutputTexts :
         LET st == ScanOutput(Locals(tool_calls_made, function_results, executed),
                              output)
         IN
         /\ ~st.raised
         /\ requests' = Append(requests,
                               Request("outputs", input_list, current_response.id))
         /\ current_response' = Response(Len(requests) + 1, output, text)
         /\ tool_calls_made' = st.tool_calls_made
         /\ function_results' = st.function_results
         /\ executed' = st.executed
         /\ input_list' = st.input_list
         /\ response_messages' =
                AppendTurn(response_messages, st.assistant_content,
                           st.function_results)
    /\ iteration' = iteration + 1
    /\ pc' = "loop"
    /\ UNCHANGED <<variant, queries, qidx, test_data, sleeps, outcomes, result,
                   fn_vars, main_vars, twin_vars, eval_vars>>

\* client.responses.create raises on a follow-up request
LoopRemoteRaises ==
    /\ variant = "agent_helpers" /\ pc = "loop"
    /\ LoopGuard(input_list, iteration)
    /\ QueryFailed("remote")

\* json.loads raises on an item of a follow-up response
LoopParseRaises ==
    /\ variant = "agent_helpers" /\ pc = "loop"
    /\ LoopGuard(input_list, iteration)
    /\ \E output \in StubOutputs(variant, qidx, Len(requests),
                                current_response.output) :
         ScanOutput(Locals(tool_calls_made, function_results, executed),
                    output).raised
    /\ QueryFailed("json")

\* a return that first sends the outputs still held in input_list
ReturnRecord_flushes ==
    /\ variant = "agent_helpers" /\ pc = "loop"
    /\ ~LoopGuard(input_list, iteration)
    /\ requests' = IF input_list /= <<>>
                   THEN Append(requests,
                               Request("outputs", input_list, current_response.id))
                   ELSE requests
    /\ response_messages' = response_messages
    /\ result' = [query |-> queries[qidx],
                  response |-> response_messages,
                  tool_calls |-> IF tool_calls_made /= <<>>
                                 THEN Some(tool_calls_made) ELSE <<>>,
                  ground_truth |-> ""]
    /\ pc' = "returned"
    /\ UNCHANGED <<variant, queries, qidx, test_data, sleeps, outcomes, input_list,
                   tool_calls_made, function_results, iteration, current_response,
                   executed, fn_vars, main_vars, twin_vars, eval_vars>>

\* after the loop: final text message, the returned record
ReturnRecord ==
    /\ variant = "agent_helpers" /\ pc = "loop"
    /\ ~LoopGuard(input_list, iteration)
    /\ LET response_text == current_response.output_text
           final == IF response_text /= ""
                    THEN Append(response_messages,
                                build_message_object("assistant",
                                    << [type |-> "text", text |-> response_text] >>,
                                    ""))
                    ELSE response_messages
       IN /\ response_messages' = final
          /\ result' = [query |-> queries[qidx],
                        response |-> final,
                        tool_calls |-> IF tool_calls_made /= <<>>
                                       THEN Some(tool_calls_made) ELSE <<>>,
                        ground_truth |-> ""]
    /\ pc' = "returned"
    /\ UNCHANGED <<variant, queries, qidx, test_data, sleeps, outcomes, input_list,
                   tool_calls_made, function_results, iteration, current_response,
                   requests, executed, fn_vars, main_vars, twin_vars, eval_vars>>

-----------------------------------------------------------------------------
(* generate_agent_test_dataset.py: generate_test_dataset *)

\* test_data.append(result); time.sleep(1)
AppendResult ==
    /\ variant = "agent_helpers" /\ pc = "returned"
    /\ test_data' = Append(test_data, result.query)
    /\ sleeps' = sleeps + 1
    /\ outcomes' = Append(outcomes,
                          [status |-> "completed", cause |-> None,
                           requests |-> Len(requests)])
    /\ qidx' = qidx + 1
    /\ pc' = "idle"
    /\ LocalsCleared
    /\ UNCHANGED <<variant, queries, fn_vars, main_vars, twin_vars, eval_vars>>

\* return test_data
ReturnDataset ==
    /\ variant = "agent_helpers" /\ pc = "idle" /\ qidx > Len(queries)
    /\ pc' = "done"
    /\ UNCHANGED <<variant, queries, qidx, test_data, sleeps, outcomes,
                   response_messages, input_list, tool_calls_made,
                   function_results, iteration, current_response, result,
                   requests, executed, fn_vars, main_vars, twin_vars, eval_vars>>

-----------------------------------------------------------------------------
(* tool_call_accuracy.py / comprehensive_agent_evaluation.py:               *)
(* execute_agent_with_tools                                                 *)

VariantQuery == "What's the weather like in New York?"

\* one output item of execute_agent_with_tools
HandleItemWithTools(available_functions, st, item) ==
    IF item.type /= "function_call" THEN st
    ELSE IF ~JsonParses(item.arguments) THEN [st EXCEPT !.raised = TRUE]
    ELSE
    LET args == JsonLoads(item.arguments)
        noted == [st EXCEPT
                    !.tool_calls_made = Append(@,
                        [type |-> "tool_call", tool_call_id |-> item.call_id,
                         name |-> item.name, arguments |-> args])]
    IN
    IF item.name \in DOMAIN available_functions
    THEN LET call == CallFunction(available_functions, item.name, args, st.now)
             ran == [noted EXCEPT
                       !.executed = Append(@, [name |-> item.name,
                                               call_id |-> item.call_id,
                                               arguments |-> args,
                                               raised |-> call.raised])]
         IN IF call.raised
            THEN [ran EXCEPT
                    !.input_list = Append(@, FunctionCallOutput(item.call_id,
                                        JsonDumps([error |-> call.value])))]
            ELSE [ran EXCEPT
                    !.function_results = Put(@, item.call_id, call.value),
                    !.input_list = Append(@, FunctionCallOutput(item.call_id,
                                        JsonDumps(call.value)))]
    ELSE noted

RECURSIVE ScanOutputWithTools(_, _, _)
ScanOutputWithTools(available_functions, st, items) ==
    IF items = <<>> \/ st.raised THEN st
    ELSE ScanOutputWithTools(available_functions,
                             HandleItemWithTools(available_functions, st, Head(items)),
                             Tail(items))

\* Step 1 and Step 2: initial request, execution of the requested functions
ExecInitial ==
    /\ variant /= "agent_helpers" /\ pc = "idle"
    /\ \E output \in StubOutputs(variant, qidx, 0, <<>>), text \in OutputTexts :
         LET st == ScanOutputWithTools(Registry(variant),
                                       Locals(<<>>, EmptyDict, <<>>), output)
         IN
         /\ ~st.raised
         /\ requests' = << Request("query", queries[qidx], None) >>
         /\ current_response' = Response(1, output, text)
         /\ tool_calls_made' = st.tool_calls_made
         /\ function_results' = st.function_results
         /\ executed' = st.executed
         /\ input_list' = st.input_list
    /\ pc' = "scanned"
    /\ UNCHANGED <<variant, queries, qidx, test_data, sleeps, outcomes,
                   response_messages, iteration, result, fn_vars, main_vars, twin_vars, eval_vars>>

\* Step 3 with function results to send: one follow-up request, then return
ExecFollowUp ==
    /\ variant /= "agent_helpers" /\ pc = "scanned"
    /\ input_list /= <<>>
    /\ \E output \in StubOutputs(variant, qidx, 1, current_response.output), text \in OutputTexts :
         /\ requests' = Append(requests,
                               Request("outputs", input_list, current_response.id))
         /\ current_response' = Response(2, output, text)
    /\ pc' = "returned"
    /\ UNCHANGED <<variant, queries, qidx, test_data, sleeps, outcomes,
                   response_messages, input_list, tool_calls_made,
                   function_results, iteration, result, executed, fn_vars, main_vars, twin_vars, eval_vars>>

\* Step 3 without function results: final_response stays None
ExecReturnDirect ==
    /\ variant /= "agent_helpers" /\ pc = "scanned"
    /\ input_list = <<>>
    /\ pc' = "returned"
    /\ UNCHANGED <<variant, queries, qidx, test_data, sleeps, outcomes,
                   response_messages, input_list, tool_calls_made,
                   function_results, iteration, current_response, result,
                   requests, executed, fn_vars, main_vars, twin_vars, eval_vars>>

\* an exception leaves execute_agent_with_tools; main does not catch it
ExecCrashed(cause) ==
    /\ outcomes' = Append(outcomes,
                          [status |-> "raised", cause |-> cause,
                           requests |-> Len(requests) + 1])
    /\ pc' = "crashed"
    /\ LocalsCleared
    /\ UNCHANGED <<variant, queries, qidx, test_data, sleeps, fn_vars, main_vars, twin_vars, eval_vars>>

ExecRemoteRaises ==
    /\ variant /= "agent_helpers"
    /\ \/ pc = "idle"
       \/ pc = "scanned" /\ input_list /= <<>>
    /\ ExecCrashed("remote")

ExecParseRaises ==
    /\ variant /= "agent_helpers" /\ pc = "idle"
    /\ \E output \in StubOutputs(variant, qidx, 0, <<>>) :
         ScanOutputWithTools(Registry(variant), Locals(<<>>, EmptyDict, <<>>),
                             output).raised
    /\ ExecCrashed("json")

-----------------------------------------------------------------------------
(* schema_mappings.py: per evaluator, the properties and the required       *)
(* fields of its item schema, and the fields its data mapping projects      *)

\* an item schema without the response property
ItemSchema_without_response(props, req) ==
    [properties |-> props \ {"response"}, required |-> req]

ItemSchema(props, req) == [properties |-> props, required |-> req]

EVALUATOR_DATA_SOURCE_CONFIGS ==
    "coherence" :> ItemSchema({"query", "response"}, {"query", "response"})
    @@ "fluency" :> ItemSchema({"query", "response"}, {"response"})
    @@ "groundedness" :>
           ItemSchema({"context", "query", "response", "tool_definitions"},
                      {"response"})
    @@ "intent_resolution" :>
           ItemSchema({"query", "response", "tool_definitions"},
                      {"query", "response"})
    @@ "relevance" :> ItemSchema({"query", "response"}, {"query", "response"})
    @@ "task_adherence" :>
           ItemSchema({"query", "response", "tool_definitions"},
                      {"query", "response"})
    @@ "task_completion" :>
           ItemSchema({"query", "response", "tool_definitions"},
                      {"query", "response"})
    @@ "tool_call_accuracy" :>
           ItemSchema({"query", "tool_definitions", "tool_calls", "response"},
                      {"query", "tool_definitions"})
    @@ "tool_input_accuracy" :>
           ItemSchema({"query", "response", "tool_definitions"},
                      {"query", "response", "tool_definitions"})
    @@ "tool_output_utilization" :>
           ItemSchema({"query", "response", "tool_definitions"},
                      {"query", "response"})
    @@ "tool_selection" :>
           ItemSchema({"query", "response", "tool_calls", "tool_definitions"},
                      {"query", "response", "tool_definitions"})
    @@ "tool_call_success" :>
           ItemSchema({"tool_definitions", "response"}, {"response"})

\* a data mapping: each field with the template that projects it
Mapping(fields) == { <<f, "{{item." \o f \o "}}">> : f \in fields }

EVALUATOR_DATA_MAPPINGS ==
    "coherence" :>
           { <<"query", "{{item.query}}">>,
             <<"response", "{{item.response}}">> }
    @@ "fluency" :>
           { <<"query", "{{item.query}}">>,
             <<"response", "{{item.response}}">> }
    @@ "groundedness" :>
           { <<"context", "{{item.context}}">>,
             <<"query", "{{item.query}}">>,
             <<"response", "{{item.response}}">>,
             <<"tool_definitions", "{{item.tool_definitions}}">> }
    @@ "intent_resolution" :>
           { <<"query", "{{item.query}}">>,
             <<"response", "{{item.response}}">>,
             <<"tool_definitions", "{{item.tool_definitions}}">> }
    @@ "relevance" :>
           { <<"query", "{{item.query}}">>,
             <<"response", "{{item.response}}">> }
    @@ "task_adherence" :>
           { <<"query", "{{item.query}}">>,
             <<"response", "{{item.response}}">>,
             <<"tool_definitions", "{{item.tool_definitions}}">> }
    @@ "task_completion" :>
           { <<"query", "{{item.query}}">>,
             <<"response", "{{item.response}}">>,
             <<"tool_definitions", "{{item.tool_definitions}}">> }
    @@ "tool_call_accuracy" :>
           { <<"query", "{{item.query}}">>,
             <<"tool_definitions", "{{item.tool_definitions}}">>,
             <<"tool_calls", "{{item.tool_calls}}">>,
             <<"response", "{{item.response}}">> }
    @@ "tool_input_accuracy" :>
           { <<"query", "{{item.query}}">>,
             <<"response", "{{item.response}}">>,
             <<"tool_definitions", "{{item.tool_definitions}}">> }
    @@ "tool_output_utilization" :>
           { <<"query", "{{item.query}}">>,
             <<"response", "{{item.response}}">>,
             <<"tool_definitions", "{{item.tool_definitions}}">> }
    @@ "tool_selection" :>
           { <<"query", "{{item.query}}">>,
             <<"response", "{{item.response}}">>,
             <<"tool_calls", "{{item.tool_calls}}">>,
             <<"tool_definitions", "{{item.tool_definitions}}">> }
    @@ "tool_call_success" :>
           { <<"tool_definitions", "{{item.tool_definitions}}">>,
             <<"response", "{{item.response}}">> }

-----------------------------------------------------------------------------
(* The evaluation scripts: run_evaluation_with_dataset.py, and the          *)
(* evaluation part of comprehensive_agent_evaluation.py and                 *)
(* tool_call_accuracy.py                                                    *)

Scripts == {"run_evaluation", "comprehensive", "tool_call_accuracy"}

\* a unified schema without the context field
unified_schema_without_context ==
    ItemSchema({"query", "response", "ground_truth", "tool_definitions",
                "tool_calls"},
               {"query", "tool_definitions"})

\* run_evaluation_with_dataset.main
unified_schema ==
    ItemSchema({"query", "response", "context", "ground_truth",
                "tool_definitions", "tool_calls"},
               {"query", "tool_definitions"})

\* comprehensive_agent_evaluation.py
get_unified_data_source_config ==
    ItemSchema({"query", "response", "context", "tool_definitions", "tool_calls",
                "ground_truth"},
               {})

\* tool_call_accuracy.main
data_source_config ==
    ItemSchema({"query", "tool_definitions", "tool_calls", "response"},
               {"query", "tool_definitions"})

\* the evaluators each script asks for
evaluator_names ==
    << "tool_call_accuracy", "tool_selection", "tool_input_accuracy",
       "tool_output_utilization", "tool_call_success", "task_completion",
       "task_adherence", "coherence", "fluency", "relevance", "groundedness",
       "intent_resolution" >>

evaluators_to_run ==
    << "tool_call_accuracy", "tool_selection", "tool_input_accuracy",
       "tool_call_success", "task_completion", "task_adherence", "coherence",
       "fluency", "relevance", "groundedness", "intent_resolution",
       "tool_output_utilization" >>

\* a criterion whose evaluator_name is the bare name
Criterion_without_prefix(name, data_mapping) ==
    [type |-> "azure_ai_evaluator", name |-> name,
     evaluator_name |-> name, data_mapping |-> data_mapping]

Criterion(name, data_mapping) ==
    [type |-> "azure_ai_evaluator", name |-> name,
     evaluator_name |-> "builtin." \o name, data_mapping |-> data_mapping]

RECURSIVE build_testing_criteria(_)
build_testing_criteria(names) ==
    IF names = <<>> THEN <<>>
    ELSE IF Head(names) \notin DOMAIN EVALUATOR_DATA_MAPPINGS
    THEN build_testing_criteria(Tail(names))
    ELSE << Criterion(Head(names), EVALUATOR_DATA_MAPPINGS[Head(names)]) >>
         \o build_testing_criteria(Tail(names))

\* what a script hands to client.evals.create
EvalSchema(s) ==
    CASE s = "run_evaluation" -> unified_schema
      [] s = "comprehensive" -> get_unified_data_source_config
      [] s = "tool_call_accuracy" -> data_source_config

EvalCriteria(s) ==
    CASE s = "run_evaluation" -> build_testing_criteria(evaluator_names)
      [] s = "comprehensive" -> build_testing_criteria(evaluators_to_run)
      [] s = "tool_call_accuracy" ->
             << Criterion("tool_call_accuracy",
                          Mapping({"query", "tool_definitions", "tool_calls",
                                   "response"})) >>

\* a remote operation as the stubbed service sees it
RemoteOp(op) ==
    [op |-> op, item_schema |-> ItemSchema({}, {}), testing_criteria |-> <<>>]

EvalsCreate(item_schema, testing_criteria) ==
    [op |-> "evals.create", item_schema |-> item_schema,
     testing_criteria |-> testing_criteria]

\* the stubbed service: the status of a retrieved run, the output items
MaxPolls == 3           \* polls that find the run neither completed nor failed
MaxOutputItems == 3     \* output items of a run

RunStatuses == {"queued", "in_progress", "completed", "failed", "canceled"}

Score(name, score) == [name |-> name, score |-> score]

\* an output item: has_scores is hasattr(item, 'scores'); a score's value is
\* <<>> for None, <<v>> for the number v
OutputItem(has_scores, scores) == [has_scores |-> has_scores, scores |-> scores]

StubOutputItems ==
    { OutputItem(FALSE, <<>>),
      OutputItem(TRUE, <<>>),
      OutputItem(TRUE, << Score("coherence", <<1>>) >>),
      OutputItem(TRUE, << Score("coherence", <<0>>), Score("fluency", <<>>) >>),
      OutputItem(TRUE, << Score("fluency", <<>>) >>),
      OutputItem(TRUE, << Score("fluency", <<5>>), Score("coherence", <<>>) >>),
      OutputItem(TRUE, << Score("coherence", <<1>>), Score("coherence", <<4>>) >>) }

\* an aggregation that counts a null score as 0
AddScore_counts_null(evaluator_scores, score) ==
    LET named == IF score.name \in DOMAIN evaluator_scores THEN evaluator_scores
                 ELSE Put(evaluator_scores, score.name, <<>>)
    IN [named EXCEPT ![score.name] =
            Append(@, IF score.score /= <<>> THEN score.score[1] ELSE 0)]

\* the body of `for score in item.scores`
AddScore(evaluator_scores, score) ==
    LET named == IF score.name \in DOMAIN evaluator_scores THEN evaluator_scores
                 ELSE Put(evaluator_scores, score.name, <<>>)
    IN IF score.score /= <<>>
       THEN [named EXCEPT ![score.name] = Append(@, score.score[1])]
       ELSE named

RECURSIVE AddScores(_, _)
AddScores(evaluator_scores, scores) ==
    IF scores = <<>> THEN evaluator_scores
    ELSE AddScores(AddScore(evaluator_scores, Head(scores)), Tail(scores))

\* for item in output_items: if hasattr(item, 'scores') and item.scores
RECURSIVE AggregateScores(_, _)
AggregateScores(evaluator_scores, items) ==
    IF items = <<>> THEN evaluator_scores
    ELSE AggregateScores(
             IF Head(items).has_scores /\ Head(items).scores /= <<>>
             THEN AddScores(evaluator_scores, Head(items).scores)
             ELSE evaluator_scores,
             Tail(items))

RECURSIVE sum(_)
sum(scores) == IF scores = <<>> THEN 0 ELSE Head(scores) + sum(Tail(scores))

\* f"{total / count:.2f}" as a number of hundredths (total >= 0, count > 0)
Format2f(total, count) == (200 * total + count) \div (2 * count)

\* the printed line of an evaluator: <<>> for N/A, else the average in
\* hundredths and the number of scores it is the average of
ReportLine(scores) ==
    IF scores /= <<>> THEN << Format2f(sum(scores), Len(scores)), Len(scores) >>
    ELSE <<>>

PrintAverages(evaluator_scores) ==
    [name \in DOMAIN evaluator_scores |-> ReportLine(evaluator_scores[name])]

\* a remote operation raises: nothing in the scripts catches it
EvRemoteRaises ==
    /\ \/ ev_pc \in {"uploaded", "evaluation", "polling", "after_loop"}
       \/ ev_pc = "start" /\ (script = "run_evaluation" => dataset_exists)
    /\ ev_pc' = "crashed"
    /\ UNCHANGED <<script, dataset_exists, remote_ops, run_status, ev_sleeps,
                   output_items, report, driver_vars, fn_vars, main_vars,
                   twin_vars>>

\* if not os.path.exists(dataset_file): print the error and return
EvDatasetMissing ==
    /\ script = "run_evaluation" /\ ev_pc = "start"
    /\ ~dataset_exists
    /\ ev_pc' = "returned"
    /\ UNCHANGED <<script, dataset_exists, remote_ops, run_status, ev_sleeps,
                   output_items, report, driver_vars, fn_vars, main_vars,
                   twin_vars>>


\* an upload that does not look for the dataset file first
EvUploadDataset_unchecked ==
    /\ script \in {"run_evaluation", "comprehensive"} /\ ev_pc = "start"
    /\ remote_ops' = remote_ops \o << RemoteOp("open_client"),
                                      RemoteOp("datasets.upload_file") >>
    /\ ev_pc' = "uploaded"
    /\ UNCHANGED <<script, dataset_exists, run_status, ev_sleeps, output_items,
                   report, driver_vars, fn_vars, main_vars, twin_vars>>

\* the with block is entered and the dataset file uploaded
EvUploadDataset ==
    /\ script \in {"run_evaluation", "comprehensive"} /\ ev_pc = "start"
    /\ script = "run_evaluation" => dataset_exists
    /\ remote_ops' = remote_ops \o << RemoteOp("open_client"),
                                      RemoteOp("datasets.upload_file") >>
    /\ ev_pc' = "uploaded"
    /\ UNCHANGED <<script, dataset_exists, run_status, ev_sleeps, output_items,
                   report, driver_vars, fn_vars, main_vars, twin_vars>>

\* client.evals.create with the script's schema and testing criteria
EvCreateEval ==
    /\ \/ script \in {"run_evaluation", "comprehensive"} /\ ev_pc = "uploaded"
          /\ remote_ops' = Append(remote_ops,
                                  EvalsCreate(EvalSchema(script),
                                              EvalCriteria(script)))
       \/ script = "tool_call_accuracy" /\ ev_pc = "start"
          /\ remote_ops' = remote_ops \o
                 << RemoteOp("open_client"),
                    EvalsCreate(EvalSchema(script), EvalCriteria(script)),
                    RemoteOp("evals.retrieve") >>
    /\ ev_pc' = "evaluation"
    /\ UNCHANGED <<script, dataset_exists, run_status, ev_sleeps, output_items,
                   report, driver_vars, fn_vars, main_vars, twin_vars>>

\* EVAL_ID is set: the existing evaluation is retrieved, none is created
EvRetrieveEval ==
    /\ script = "run_evaluation" /\ ev_pc = "uploaded"
    /\ remote_ops' = Append(remote_ops, RemoteOp("evals.retrieve"))
    /\ ev_pc' = "evaluation"
    /\ UNCHANGED <<script, dataset_exists, run_status, ev_sleeps, output_items,
                   report, driver_vars, fn_vars, main_vars, twin_vars>>

\* client.evals.runs.create
EvCreateRun ==
    /\ ev_pc = "evaluation"
    /\ remote_ops' = remote_ops \o
           (IF script = "tool_call_accuracy"
            THEN << RemoteOp("evals.runs.create"), RemoteOp("evals.runs.retrieve") >>
            ELSE << RemoteOp("evals.runs.create") >>)
    /\ ev_pc' = "polling"
    /\ UNCHANGED <<script, dataset_exists, run_status, ev_sleeps, output_items,
                   report, driver_vars, fn_vars, main_vars, twin_vars>>


\* a polling loop that gives up after MaxPolls sleeps
EvPollWait_gives_up ==
    /\ ev_pc = "polling"
    /\ ev_sleeps < MaxPolls
    /\ \E status \in RunStatuses \ {"completed", "failed"} :
         run_status' = status
    /\ remote_ops' = Append(remote_ops, RemoteOp("evals.runs.retrieve"))
    /\ ev_sleeps' = ev_sleeps + 1
    /\ ev_pc' = IF ev_sleeps' = MaxPolls THEN "done" ELSE ev_pc
    /\ UNCHANGED <<script, dataset_exists, output_items, report,
                   driver_vars, fn_vars, main_vars, twin_vars>>

\* a pass of the polling loop that finds another status: sleep, poll again
EvPollWait ==
    /\ ev_pc = "polling"
    /\ ev_sleeps < MaxPolls
    /\ \E status \in RunStatuses \ {"completed", "failed"} :
         run_status' = status
    /\ remote_ops' = Append(remote_ops, RemoteOp("evals.runs.retrieve"))
    /\ ev_sleeps' = ev_sleeps + 1
    /\ UNCHANGED <<script, ev_pc, dataset_exists, output_items, report,
                   driver_vars, fn_vars, main_vars, twin_vars>>

\* run_evaluation: status "completed": list the output items, aggregate, break
EvPollCompleted ==
    /\ script = "run_evaluation" /\ ev_pc = "polling"
    /\ run_status' = "completed"
    /\ \E items \in SeqsUpTo(StubOutputItems, MaxOutputItems) :
         /\ output_items' = items
         /\ report' = PrintAverages(AggregateScores(EmptyDict, items))
    /\ remote_ops' = remote_ops \o << RemoteOp("evals.runs.retrieve"),
                                      RemoteOp("evals.runs.output_items.list") >>
    /\ ev_pc' = "done"
    /\ UNCHANGED <<script, dataset_exists, ev_sleeps, driver_vars, fn_vars,
                   main_vars, twin_vars>>


\* a failed branch that lists the output items of the failed run
EvPollFailed_lists_items ==
    /\ script = "run_evaluation" /\ ev_pc = "polling"
    /\ run_status' = "failed"
    /\ remote_ops' = remote_ops \o << RemoteOp("evals.runs.retrieve"),
                                      RemoteOp("evals.runs.output_items.list") >>
    /\ output_items' \in SeqsUpTo(StubOutputItems, MaxOutputItems)
    /\ ev_pc' = "done"
    /\ UNCHANGED <<script, dataset_exists, ev_sleeps, report,
                   driver_vars, fn_vars, main_vars, twin_vars>>

\* run_evaluation: status "failed": print the error, break
EvPollFailed ==
    /\ script = "run_evaluation" /\ ev_pc = "polling"
    /\ run_status' = "failed"
    /\ remote_ops' = Append(remote_ops, RemoteOp("evals.runs.retrieve"))
    /\ ev_pc' = "done"
    /\ UNCHANGED <<script, dataset_exists, ev_sleeps, output_items, report,
                   driver_vars, fn_vars, main_vars, twin_vars>>

\* the two other scripts: status "completed" or "failed" ends the loop;
\* tool_call_accuracy lists the output items before the break
EvPollEnded ==
    /\ script \in {"comprehensive", "tool_call_accuracy"} /\ ev_pc = "polling"
    /\ \E status \in {"completed", "failed"} : run_status' = status
    /\ \/ /\ script = "comprehensive"
          /\ remote_ops' = Append(remote_ops, RemoteOp("evals.runs.retrieve"))
          /\ output_items' = output_items
          /\ ev_pc' = "after_loop"
       \/ /\ script = "tool_call_accuracy"
          /\ remote_ops' = remote_ops \o
                 << RemoteOp("evals.runs.retrieve"),
                    RemoteOp("evals.runs.output_items.list") >>
          /\ output_items' \in SeqsUpTo(StubOutputItems, MaxOutputItems)
          /\ ev_pc' = "done"
    /\ UNCHANGED <<script, dataset_exists, ev_sleeps, report, driver_vars,
                   fn_vars, main_vars, twin_vars>>

\* comprehensive: the output items are listed after the loop
EvListOutputItems ==
    /\ script = "comprehensive" /\ ev_pc = "after_loop"
    /\ remote_ops' = Append(remote_ops, RemoteOp("evals.runs.output_items.list"))
    /\ output_items' \in SeqsUpTo(StubOutputItems, MaxOutputItems)
    /\ ev_pc' = "done"
    /\ UNCHANGED <<script, dataset_exists, run_status, ev_sleeps, report,
                   driver_vars, fn_vars, main_vars, twin_vars>>

EvalNext ==
    \/ EvRemoteRaises
    \/ EvDatasetMissing
    \/ EvUploadDataset
    \/ EvCreateEval
    \/ EvRetrieveEval
    \/ EvCreateRun
    \/ EvPollWait
    \/ EvPollCompleted
    \/ EvPollFailed
    \/ EvPollEnded
    \/ EvListOutputItems

-----------------------------------------------------------------------------
(* execute_agent_query called twice, one call after the other, against one  *)
(* stubbed sequence of responses; the calls differ in the clock reading     *)
(* only                                                                     *)

MaxTwinResponses == 2   \* responses in the stubbed sequence

RefundArgs(order_number) ==
    JsonDumps({<<"order_number", order_number>>, <<"reason", "Damaged item">>})

TwinOutputs ==
    { <<>>,
      << FunctionCall("call_1", "process_refund", RefundArgs("ORD-2024-1234")) >>,
      << FunctionCall("call_1", "process_refund", RefundArgs("ORD-0000-0000")) >>,
      << FunctionCall("call_1", "check_order_status", OrderArgs) >>,
      << FileSearchCall, FunctionCall("call_2", "cancel_order", OrderArgs) >>,
      << FunctionCall("call_1", "get_weather", WeatherArgs) >>,
      << FunctionCall("call_1", "check_order_status", Garbage) >> }

TwinResponses ==
    { [output |-> o, output_text |-> t] : o \in TwinOutputs, t \in OutputTexts }

\* the response served as number n: the n-th of the sequence, a final answer
\* without text once the sequence is used up
Served(n) ==
    IF n <= Len(twin_feed) THEN twin_feed[n]
    ELSE [output |-> <<>>, output_text |-> ""]

\* the locals of a call before it starts
FreshRun ==
    [pc |-> "idle", response_messages |-> <<>>, input_list |-> <<>>,
     tool_calls_made |-> <<>>, function_results |-> EmptyDict, iteration |-> 0,
     served |-> 0, output_text |-> "", result |-> NoResult]

\* the scan of the next response by call r
TwinScan(r) ==
    ScanOutput([Locals(twin[r].tool_calls_made, twin[r].function_results, <<>>)
                   EXCEPT !.now = twin_now[r]],
               Served(twin[r].served + 1).output)

\* the second call starts when the first has ended
TwinTurn(r) == r = 1 \/ twin[1].pc \in {"returned", "raised"}

\* the locals of call r after the request and the scan of its response
TwinScanned(r) ==
    LET st == TwinScan(r) IN
    [twin[r] EXCEPT
        !.pc = "loop",
        !.tool_calls_made = st.tool_calls_made,
        !.function_results = st.function_results,
        !.input_list = st.input_list,
        !.response_messages = AppendTurn(@, st.assistant_content,
                                         st.function_results),
        !.served = @ + 1,
        !.output_text = Served(twin[r].served + 1).output_text]

\* initial request of call r
TwinSendQuery(r) ==
    /\ TwinTurn(r) /\ twin[r].pc = "idle"
    /\ ~TwinScan(r).raised
    /\ twin' = [twin EXCEPT ![r] = TwinScanned(r)]
    /\ UNCHANGED <<twin_feed, twin_now, driver_vars, fn_vars, main_vars,
                   eval_vars>>

\* one pass of the while loop of call r
TwinLoopIteration(r) ==
    /\ TwinTurn(r) /\ twin[r].pc = "loop"
    /\ LoopGuard(twin[r].input_list, twin[r].iteration)
    /\ ~TwinScan(r).raised
    /\ twin' = [twin EXCEPT ![r] = [TwinScanned(r) EXCEPT !.iteration = @ + 1]]
    /\ UNCHANGED <<twin_feed, twin_now, driver_vars, fn_vars, main_vars,
                   eval_vars>>

\* json.loads raises in call r: the exception leaves execute_agent_query
TwinParseRaises(r) ==
    /\ TwinTurn(r)
    /\ \/ twin[r].pc = "idle"
       \/ twin[r].pc = "loop" /\ LoopGuard(twin[r].input_list, twin[r].iteration)
    /\ TwinScan(r).raised
    /\ twin' = [twin EXCEPT ![r] = [FreshRun EXCEPT !.pc = "raised",
                                                    !.served = twin[r].served + 1]]
    /\ UNCHANGED <<twin_feed, twin_now, driver_vars, fn_vars, main_vars,
                   eval_vars>>

\* after the loop of call r: final text message, the returned record
TwinReturnRecord(r) ==
    /\ TwinTurn(r) /\ twin[r].pc = "loop"
    /\ ~LoopGuard(twin[r].input_list, twin[r].iteration)
    /\ LET final == IF twin[r].output_text /= ""
                    THEN Append(twin[r].response_messages,
                                build_message_object("assistant",
                                    << [type |-> "text",
                                        text |-> twin[r].output_text] >>, ""))
                    ELSE twin[r].response_messages
       IN twin' = [twin EXCEPT ![r] =
                     [@ EXCEPT !.pc = "returned",
                               !.response_messages = final,
                               !.result =
                                   [query |-> TEST_QUERIES[1],
                                    response |-> final,
                                    tool_calls |->
                                        IF twin[r].tool_calls_made /= <<>>
                                        THEN Some(twin[r].tool_calls_made)
                                        ELSE <<>>,
                                    ground_truth |-> ""]]]
    /\ UNCHANGED <<twin_feed, twin_now, driver_vars, fn_vars, main_vars,
                   eval_vars>>

TwinNext ==
    \E r \in 1..2 :
        \/ TwinSendQuery(r)
        \/ TwinLoopIteration(r)
        \/ TwinParseRaises(r)
        \/ TwinReturnRecord(r)

-----------------------------------------------------------------------------
(* generate_agent_test_dataset.py: main                                     *)

Deletion(resource, raised) == [resource |-> resource, raised |-> raised]

\* create_agent_tools: the vector store is created, the documents uploaded
\* (a failed upload is caught and printed), the tools built
MainCreateTools ==
    /\ main_pc = "start"
    /\ created' = {"vector_store"}
    /\ main_pc' = "tools"
    /\ UNCHANGED <<deletions, saved, driver_vars, fn_vars, twin_vars, eval_vars>>

\* create_agent_tools raises: before the vector store exists
\* (vector_stores.create) or after (building a tool)
MainCreateToolsRaises ==
    /\ main_pc = "start"
    /\ created' \in { {}, {"vector_store"} }
    /\ main_pc' = "crashed"
    /\ UNCHANGED <<deletions, saved, driver_vars, fn_vars, twin_vars, eval_vars>>

\* project_client.agents.create_version
MainCreateAgent ==
    /\ main_pc = "tools"
    /\ created' = created \cup {"agent"}
    /\ main_pc' = "agent"
    /\ UNCHANGED <<deletions, saved, driver_vars, fn_vars, twin_vars, eval_vars>>

\* an agent creation whose failure is followed by the deletion of the
\* vector store
MainCreateAgentRaises_cleans_up ==
    /\ main_pc = "tools"
    /\ deletions' = Append(deletions, Deletion("vector_store", FALSE))
    /\ main_pc' = "crashed"
    /\ UNCHANGED <<created, saved, driver_vars, fn_vars, twin_vars, eval_vars>>

\* agents.create_version raises: nothing in main catches it
MainCreateAgentRaises ==
    /\ main_pc = "tools"
    /\ main_pc' = "crashed"
    /\ UNCHANGED <<created, deletions, saved, driver_vars, fn_vars, twin_vars,
                   eval_vars>>

\* save_dataset(test_data), once generate_test_dataset has returned
MainSaveDataset ==
    /\ main_pc = "agent" /\ pc = "done"
    /\ saved' = Some(test_data)
    /\ main_pc' = "saved"
    /\ UNCHANGED <<created, deletions, driver_vars, fn_vars, twin_vars, eval_vars>>

\* save_dataset raises (the output file cannot be opened)
MainSaveDatasetRaises ==
    /\ main_pc = "agent" /\ pc = "done"
    /\ main_pc' = "crashed"
    /\ UNCHANGED <<created, deletions, saved, driver_vars, fn_vars, twin_vars,
                   eval_vars>>

\* cleanup_resources: delete the agent, then the vector store; an exception
\* of either deletion is printed and ends the cleanup
MainCleanup ==
    /\ main_pc = "saved"
    /\ deletions' \in
           { << Deletion("agent", FALSE), Deletion("vector_store", FALSE) >>,
             << Deletion("agent", FALSE), Deletion("vector_store", TRUE) >>,
             << Deletion("agent", TRUE) >> }
    /\ main_pc' = "complete"
    /\ UNCHANGED <<created, saved, driver_vars, fn_vars, twin_vars, eval_vars>>

\* generate_test_dataset(client, agent.name, TEST_QUERIES) inside main
MainGenerating == main_pc = "agent"

MainNext ==
    \/ MainCreateTools
    \/ MainCreateToolsRaises
    \/ MainCreateAgent
    \/ MainCreateAgentRaises
    \/ MainGenerating /\ SendQuery
    \/ MainGenerating /\ SendQueryRemoteRaises
    \/ MainGenerating /\ SendQueryParseRaises
    \/ MainGenerating /\ LoopIteration
    \/ MainGenerating /\ LoopRemoteRaises
    \/ MainGenerating /\ LoopParseRaises
    \/ MainGenerating /\ ReturnRecord
    \/ MainGenerating /\ AppendResult
    \/ MainGenerating /\ ReturnDataset
    \/ MainSaveDataset
    \/ MainSaveDatasetRaises
    \/ MainCleanup

-----------------------------------------------------------------------------
(* Direct application of build_testing_criteria to a list of evaluator      *)
(* names (specification CriteriaSpec): fn_args is the list, fn_result the   *)
(* criteria returned                                                        *)

MaxNames == 2

\* the names tried: every key of the mapping table and a name it lacks
EvaluatorNames == DOMAIN EVALUATOR_DATA_MAPPINGS \cup {"unknown_evaluator"}

NameLists ==
    SeqsUpTo(EvaluatorNames, MaxNames) \cup {evaluator_names, evaluators_to_run}

BuildCriteria ==
    /\ fn_pc = "ready" /\ fn_name = "build_testing_criteria"
    /\ fn_result' = build_testing_criteria(fn_args)
    /\ fn_pc' = "returned"
    /\ UNCHANGED <<fn_name, fn_args, fn_now, driver_vars, main_vars, twin_vars,
                   eval_vars>>

-----------------------------------------------------------------------------
(* Specifications *)

DriverInit ==
    /\ variant \in Variants
    /\ queries = IF variant = "agent_helpers"
                 THEN SubSeq(TEST_QUERIES, 1, MaxQueries)
                 ELSE << VariantQuery >>
    /\ qidx = 1
    /\ test_data = <<>>
    /\ sleeps = 0
    /\ outcomes = <<>>
    /\ pc = "idle"
    /\ response_messages = <<>>
    /\ input_list = <<>>
    /\ tool_calls_made = <<>>
    /\ function_results = EmptyDict
    /\ iteration = 0
    /\ current_response = NoResponse
    /\ result = NoResult
    /\ requests = <<>>
    /\ executed = <<>>

\* the scripts that are not running
MainIdle == main_pc = "off" /\ created = {} /\ deletions = <<>> /\ saved = <<>>

TwinIdle == twin_feed = <<>> /\ twin_now = <<>> /\ twin = <<>>

EvalIdle ==
    /\ script = None /\ ev_pc = "off" /\ dataset_exists = FALSE
    /\ remote_ops = <<>> /\ run_status = None /\ ev_sleeps = 0
    /\ output_items = <<>> /\ report = EmptyDict

Init == DriverInit /\ FnIdle /\ MainIdle /\ TwinIdle /\ EvalIdle

Next ==
    \/ SendQuery
    \/ SendQueryRemoteRaises
    \/ SendQueryParseRaises
    \/ LoopIteration
    \/ LoopRemoteRaises
    \/ LoopParseRaises
    \/ ReturnRecord
    \/ AppendResult
    \/ ReturnDataset
    \/ ExecInitial
    \/ ExecFollowUp
    \/ ExecReturnDirect
    \/ ExecRemoteRaises
    \/ ExecParseRaises

Spec == Init /\ [][Next]_vars

\* a business function applied to an argument object
FnInit ==
    /\ DriverInit
    /\ variant = "agent_helpers"
    /\ fn_pc = "ready"
    /\ fn_name \in FnNames
    /\ fn_args \in ArgObjects(fn_name)
    /\ fn_now \in Clock
    /\ fn_result = None
    /\ MainIdle /\ TwinIdle /\ EvalIdle

FnSpec == FnInit /\ [][FnNext]_vars

\* an evaluation script from its start
EvalInit ==
    /\ DriverInit /\ variant = "agent_helpers"
    /\ FnIdle /\ MainIdle /\ TwinIdle
    /\ script \in Scripts
    /\ ev_pc = "start"
    /\ dataset_exists \in IF script = "run_evaluation" THEN BOOLEAN ELSE {TRUE}
    /\ remote_ops = <<>>
    /\ run_status = None
    /\ ev_sleeps = 0
    /\ output_items = <<>>
    /\ report = EmptyDict

EvalSpec == EvalInit /\ [][EvalNext]_vars

\* two calls of execute_agent_query against one sequence of responses
TwinInit ==
    /\ DriverInit /\ variant = "agent_helpers"
    /\ FnIdle /\ MainIdle /\ EvalIdle
    /\ twin_feed \in SeqsUpTo(TwinResponses, MaxTwinResponses)
    /\ twin_now \in { <<a, b>> : a \in {DriverClock}, b \in Clock }
    /\ twin = << FreshRun, FreshRun >>

TwinSpec == TwinInit /\ [][TwinNext]_vars

\* generate_agent_test_dataset.main from its start
MainInit ==
    /\ DriverInit /\ variant = "agent_helpers"
    /\ FnIdle /\ TwinIdle /\ EvalIdle
    /\ main_pc = "start"
    /\ created = {}
    /\ deletions = <<>>
    /\ saved = <<>>

MainSpec == MainInit /\ [][MainNext]_vars

\* build_testing_criteria applied to a list of evaluator names
CriteriaInit ==
    /\ DriverInit /\ variant = "agent_helpers"
    /\ MainIdle /\ TwinIdle /\ EvalIdle
    /\ fn_pc = "ready"
    /\ fn_name = "build_testing_criteria"
    /\ fn_args \in NameLists
    /\ fn_now = None
    /\ fn_result = None

CriteriaSpec == CriteriaInit /\ [][BuildCriteria]_vars

-----------------------------------------------------------------------------
(* Vocabulary of the properties *)

IsAgentHelpers == variant = "agent_helpers"

\* positions of the function-call entries of tool_calls_made
CallIdx ==
    { i \in 1..Len(tool_calls_made) :
        tool_calls_made[i].type \in {"function_call", "tool_call"} }

\* ... of those naming a tool of the running script's registry
RegisteredIdx ==
    { i \in CallIdx : tool_calls_made[i].name \in DOMAIN Registry(variant) }

DistinctCallIds ==
    \A i, j \in CallIdx :
        tool_calls_made[i].tool_call_id = tool_calls_made[j].tool_call_id => i = j

\* every function_call_output sent to the endpoint so far, in order
RECURSIVE InputsOf(_)
InputsOf(reqs) ==
    IF reqs = <<>> THEN <<>>
    ELSE (IF Head(reqs).kind = "outputs" THEN Head(reqs).input ELSE <<>>)
         \o InputsOf(Tail(reqs))

SentOutputs == InputsOf(requests)

\* the outputs built for a request that has not been sent
PendingOutputs ==
    IF IsAgentHelpers \/ pc = "scanned" THEN input_list ELSE <<>>

AllOutputs == SentOutputs \o PendingOutputs

OutputIdx(outs, id) == { j \in 1..Len(outs) : outs[j].call_id = id }

ToolMsgIdx(id) ==
    { i \in 1..Len(response_messages) :
        /\ response_messages[i].role = "tool"
        /\ response_messages[i].tool_call_id = id }

\* positions of the registered function calls of an output list
RegisteredItems(output) ==
    { i \in 1..Len(output) :
        /\ output[i].type = "function_call"
        /\ output[i].name \in DOMAIN Registry(variant) }

HasFunctionCall(output) ==
    \E i \in 1..Len(output) : output[i].type = "function_call"

\* what a registered call's result is: the return value, or the exception's
\* message under "error"
ResultOfCall(name, args) ==
    LET call == CallFunction(Registry(variant), name, args, DriverClock) IN
    IF call.raised THEN [error |-> call.value] ELSE call.value

\* the k-th smallest element of a set of numbers
RECURSIVE Nth(_, _)
Nth(S, k) ==
    LET m == CHOOSE x \in S : \A y \in S : x <= y IN
    IF k = 1 THEN m ELSE Nth(S \ {m}, k - 1)

-----------------------------------------------------------------------------
(* C1: execute_agent_query issues at most 1 + max_iterations requests, each  *)
(* pass of its loop sends one request and advances the iteration counter,    *)
(* and at the ceiling the loop is left and the record is returned.           *)
C1_BoundedRoundTrips ==
    IsAgentHelpers =>
        /\ Len(requests) <= 1 + max_iterations
        /\ iteration <= max_iterations
        /\ pc \in {"loop", "returned"} => Len(requests) = iteration + 1
        /\ (pc = "loop" /\ Len(requests) = 1 + max_iterations) =>
               (ENABLED ReturnRecord /\ ~ENABLED LoopIteration)

\* a record returned after the initial request and five follow-ups, every
\* response having asked for a registered tool
C1_Witness ==
    /\ IsAgentHelpers /\ pc = "returned"
    /\ Len(requests) = 1 + max_iterations
    /\ input_list /= <<>>
    /\ result.query = queries[qidx]

(* C2 as stated: with distinct call ids, when the record is returned every   *)
(* registered function call has one function_results entry, one tool message *)
(* and one function_call_output in a request that was sent.                  *)
C2_AsStated ==
    (IsAgentHelpers /\ pc = "returned" /\ DistinctCallIds) =>
        \A i \in RegisteredIdx :
            LET id == tool_calls_made[i].tool_call_id IN
            /\ id \in DOMAIN function_results
            /\ Cardinality(ToolMsgIdx(id)) = 1
            /\ Cardinality(OutputIdx(SentOutputs, id)) = 1

(* C2 (amended): with distinct call ids, every registered function call has  *)
(* one function_results entry (the call's result, or {"error": message}),    *)
(* one tool message carrying that result under its call id, and one          *)
(* function_call_output with its call id and that result; the output is in   *)
(* a sent request unless the call came with the response received at the     *)
(* iteration ceiling, whose outputs stay in input_list unsent.               *)
C2_OneCorrelatedResult ==
    (IsAgentHelpers /\ pc \in {"loop", "returned"} /\ DistinctCallIds) =>
        \A i \in RegisteredIdx :
            LET id == tool_calls_made[i].tool_call_id
                res == ResultOfCall(tool_calls_made[i].name,
                                    tool_calls_made[i].arguments)
            IN
            /\ id \in DOMAIN function_results
            /\ function_results[id] = res
            /\ Cardinality(ToolMsgIdx(id)) = 1
            /\ \A m \in ToolMsgIdx(id) :
                   response_messages[m].content =
                       << [type |-> "tool_result", tool_result |-> res] >>
            /\ Cardinality(OutputIdx(AllOutputs, id)) = 1
            /\ \A j \in OutputIdx(AllOutputs, id) :
                   AllOutputs[j].output = JsonDumps(res)
            /\ (pc = "returned" /\ OutputIdx(SentOutputs, id) = {}) =>
                   iteration = max_iterations

\* a returned record whose calls had distinct ids, one call having returned
\* and one having raised
C2_Witness ==
    /\ IsAgentHelpers /\ pc = "returned" /\ DistinctCallIds
    /\ \E a, b \in 1..Len(executed) : executed[a].raised /\ ~executed[b].raised
    /\ \A k \in 1..Len(executed) :
           Cardinality(ToolMsgIdx(executed[k].call_id)) = 1

(* C3 as stated: whenever a registered callable raised, its error payload    *)
(* was sent to the endpoint in a follow-up request.                          *)
C3_AsStated ==
    (IsAgentHelpers /\ pc = "returned") =>
        \A k \in 1..Len(executed) :
            executed[k].raised =>
                \E j \in 1..Len(SentOutputs) :
                    SentOutputs[j].call_id = executed[k].call_id

(* C3 (amended): a raising callable is caught for its invocation only: the   *)
(* scan of the response goes on, so that input_list holds, in output order,  *)
(* one function_call_output per registered call of the response, with        *)
(* payload {"error": message} for a call that raised; the follow-up request  *)
(* is performed unless the iteration ceiling has been reached; the only      *)
(* exceptions that leave the driver are the remote call's and json.loads'.   *)
C3_ToolErrorFedBack ==
    IsAgentHelpers =>
        /\ pc \in {"loop", "returned"} =>
             LET output == current_response.output
                 reg == RegisteredItems(output)
             IN
             /\ Len(input_list) = Cardinality(reg)
             /\ \A j \in 1..Len(input_list) :
                    LET item == output[Nth(reg, j)]
                        call == CallFunction(AVAILABLE_FUNCTIONS, item.name,
                                             JsonLoads(item.arguments), DriverClock)
                    IN
                    /\ input_list[j].call_id = item.call_id
                    /\ input_list[j].output =
                           JsonDumps(IF call.raised THEN [error |-> call.value]
                                     ELSE call.value)
        /\ (pc = "loop" /\ input_list /= <<>> /\ iteration < max_iterations) =>
               (ENABLED LoopIteration /\ ~ENABLED ReturnRecord)
        /\ (pc = "returned" /\ input_list /= <<>>) => iteration = max_iterations
        /\ \A k \in 1..Len(outcomes) :
               outcomes[k].status = "raised" =>
                   outcomes[k].cause \in {"remote", "json"}

\* a response whose first call raised and whose second call was still run,
\* both answered in the follow-up request that was then sent
C3_Witness ==
    /\ IsAgentHelpers /\ pc = "loop" /\ iteration = 1
    /\ Len(executed) >= 2
    /\ executed[1].raised /\ ~executed[2].raised
    /\ Len(requests[2].input) = 2
    /\ "error" \in DOMAIN requests[2].input[1].output.value
    /\ requests[2].input[1].call_id = executed[1].call_id
    /\ requests[2].input[2].call_id = executed[2].call_id

C5_UnresolvedRecordedAsError ==
    (IsAgentHelpers /\ pc = "returned") =>
        \A i \in CallIdx \ RegisteredIdx :
            \E m \in ToolMsgIdx(tool_calls_made[i].tool_call_id) :
                "error" \in DOMAIN response_messages[m].content[1].tool_result

(* C6 as stated: in the returned transcript each tool_call_id is carried by  *)
(* at most one tool-role message.                                            *)
C6_AtMostOneToolMessagePerId ==
    (IsAgentHelpers /\ pc = "returned") =>
        \A i \in 1..Len(response_messages) :
            response_messages[i].role = "tool" =>
                Cardinality(ToolMsgIdx(response_messages[i].tool_call_id)) <= 1

(* C7 as stated: a response received before the iteration ceiling that holds *)
(* a tool-invocation request is followed by another request, so the driver   *)
(* never returns on such a response.                                         *)
C7_FollowUpWheneverRequested ==
    (IsAgentHelpers /\ pc = "returned" /\ iteration < max_iterations) =>
        ~HasFunctionCall(current_response.output)

(* C8 as stated: every driver variant returns only on a response that asks   *)
(* for no (registered) tool invocation, or at the iteration ceiling.         *)
C8_KeepsExecutingUntilDone ==
    pc = "returned" =>
        \/ RegisteredItems(current_response.output) = {}
        \/ IsAgentHelpers /\ iteration = max_iterations

\* the queries among the first n whose driver call completed, in order
RECURSIVE CompletedQueries(_)
CompletedQueries(n) ==
    IF n = 0 THEN <<>>
    ELSE CompletedQueries(n - 1)
         \o (IF outcomes[n].status = "completed" THEN << queries[n] >> ELSE <<>>)

(* C9: an exception of the remote call ends its query without a record and   *)
(* without another request; generate_test_dataset goes on to the next query, *)
(* processes every query, and the dataset holds one record per completed     *)
(* query, in query order.                                                    *)
C9_OneRecordPerCompletedQuery ==
    IsAgentHelpers =>
        /\ pc \in {"idle", "done"} => Len(outcomes) = qidx - 1
        /\ pc \in {"loop", "returned"} => Len(outcomes) = qidx - 1
        /\ test_data = CompletedQueries(Len(outcomes))
        /\ pc = "done" => Len(outcomes) = Len(queries)
        /\ \A k \in 1..Len(outcomes) :
               outcomes[k].requests <= 1 + max_iterations

\* the first query failed on a follow-up request, the second one completed
C9_Witness ==
    /\ IsAgentHelpers /\ pc = "done"
    /\ Len(outcomes) = 2
    /\ outcomes[1].status = "raised" /\ outcomes[1].cause = "remote"
    /\ outcomes[1].requests = 2
    /\ outcomes[2].status = "completed"
    /\ test_data = << queries[2] >>

(* C10: check_order_status returns the stored record for an order number of  *)
(* the order table ("In Transit" for "ORD-2024-5678") and, for any other     *)
(* order number, {"error": "Order not found", "order_number": <number>}.     *)
C10_CheckOrderStatus ==
    (fn_pc = "returned" /\ fn_name = "check_order_status") =>
        LET order_number == Get(fn_args, "order_number") IN
        /\ order_number \in DOMAIN orders => fn_result = orders[order_number]
        /\ order_number = "ORD-2024-5678" => fn_result.status = "In Transit"
        /\ order_number \notin {"ORD-2024-5678", "ORD-2024-1234"} =>
               fn_result = [error |-> "Order not found",
                            order_number |-> order_number]

\* the lookup of an order number the table does not hold
C10_Witness ==
    /\ fn_pc = "returned" /\ fn_name = "check_order_status"
    /\ Get(fn_args, "order_number") = "ORD-0000-0000"
    /\ fn_result = [error |-> "Order not found", order_number |-> "ORD-0000-0000"]


\* C11 as stated -- cancel_order returns success == false for an order whose
\* status is "In Transit" or "Delivered" and success == true for an order of
\* any other status.
Statuses == {"Processing", "Shipped", "In Transit", "Delivered"}

C12_WellFormedNeverRaises ==
    (fn_pc \in {"returned", "raised"}
       /\ Validates(FUNCTION_TOOL_SCHEMAS[fn_name], fn_args)) =>
        /\ fn_pc = "returned"
        /\ DOMAIN fn_result /= {}
        /\ (fn_name = "check_order_status"
               /\ Get(fn_args, "order_number") \notin DOMAIN orders) =>
              fn_result.error = "Order not found"
        /\ (fn_name \in {"process_refund", "cancel_order"}
               /\ Get(fn_args, "order_number") \notin DOMAIN orders) =>
              fn_result.success = FALSE
        /\ (fn_name = "check_product_availability"
               /\ Get(fn_args, "product_name") = "iPhone 15") =>
              fn_result.available = FALSE

C12_Witness ==
    /\ fn_pc = "returned" /\ fn_name = "update_customer_profile_salesforce"
    /\ Validates(FUNCTION_TOOL_SCHEMAS[fn_name], fn_args)
    /\ fn_result.updated_fields = {"phone: x", "email: x", "address: x"}

-----------------------------------------------------------------------------
(* Vocabulary of the properties of the evaluation scripts *)

OpsNamed(op) == { i \in 1..Len(remote_ops) : remote_ops[i].op = op }

Terminal == {"completed", "failed"}

\* positions <<i, j>> of the scores of the output items that carry scores
ScorePositions ==
    UNION { { <<i, j>> : j \in 1..Len(output_items[i].scores) } :
            i \in { k \in 1..Len(output_items) : output_items[k].has_scores } }

ScoreAt(p) == output_items[p[1]].scores[p[2]]

NonNullOf(name) ==
    { p \in ScorePositions : ScoreAt(p).name = name /\ ScoreAt(p).score /= <<>> }

RECURSIVE TotalOf(_)
TotalOf(positions) ==
    IF positions = {} THEN 0
    ELSE LET p == CHOOSE x \in positions : TRUE
         IN ScoreAt(p).score[1] + TotalOf(positions \ {p})

Abs(n) == IF n < 0 THEN -n ELSE n

\* C13 -- for every evaluator name of the enumerated set, every field of the
\* evaluator's required list and every field its data mapping projects is a
\* property of the unified record schema, for the unified schema of
\* run_evaluation_with_dataset.main and for get_unified_data_source_config:
\* whenever one of the two scripts creates its evaluation, the item schema it
\* hands over declares those fields, and the fields every testing criterion
\* of the request projects.
C13_UnifiedSchemaSuperset ==
    script \in {"run_evaluation", "comprehensive"} =>
        \A i \in OpsNamed("evals.create") :
            LET properties == remote_ops[i].item_schema.properties
                criteria == remote_ops[i].testing_criteria
            IN /\ remote_ops[i].item_schema = EvalSchema(script)
               /\ \A name \in DOMAIN EVALUATOR_DATA_SOURCE_CONFIGS :
                    /\ EVALUATOR_DATA_SOURCE_CONFIGS[name].required
                           \subseteq properties
                    /\ Keys(EVALUATOR_DATA_MAPPINGS[name]) \subseteq properties
               /\ \A c \in 1..Len(criteria) :
                    Keys(criteria[c].data_mapping) \subseteq properties

C13_Witness ==
    /\ script = "run_evaluation"
    /\ \E i \in OpsNamed("evals.create") :
         /\ Len(remote_ops[i].testing_criteria) = 12
         /\ \E c \in 1..12 :
              /\ remote_ops[i].testing_criteria[c].name = "groundedness"
              /\ "context" \in Keys(remote_ops[i].testing_criteria[c].data_mapping)

\* C14 -- the polling loop of the three scripts is left if and only if the
\* run retrieved has status "completed" or "failed": a pass that finds any
\* other status sleeps and polls again, with no timeout and no cancellation,
\* so a script gets past the loop only when the service reported one of the
\* two statuses.
C14_PollsUntilTerminal ==
    /\ [](/\ ev_pc \in {"after_loop", "done"} => run_status \in Terminal
          /\ ev_pc = "polling" => run_status \notin Terminal
          /\ ev_pc = "polling" =>
                /\ ev_sleeps <= MaxPolls
                /\ ev_sleeps < MaxPolls => ENABLED EvPollWait)
    /\ [][ev_pc = "polling" =>
            \/ /\ run_status' \in Terminal
               /\ ev_pc' \in {"after_loop", "done"}
               /\ ev_sleeps' = ev_sleeps
            \/ /\ run_status' \notin Terminal
               /\ ev_pc' = "polling"
               /\ ev_sleeps' = ev_sleeps + 1
               /\ Len(remote_ops') = Len(remote_ops) + 1
               /\ remote_ops'[Len(remote_ops')].op = "evals.runs.retrieve"
            \/ ev_pc' = "crashed" /\ run_status' = run_status]_vars

C14_Witness ==
    /\ ev_pc = "polling" /\ run_status = "canceled"
    /\ ev_sleeps = MaxPolls
    /\ Cardinality(OpsNamed("evals.runs.retrieve")) >= MaxPolls

\* C15 -- in run_evaluation_with_dataset.main a polled status "failed" ends
\* the polling: the script has created one run and creates no other, lists no
\* output items, aggregates no scores, and performs no further operation.
C15_FailedRunStops ==
    (script = "run_evaluation" /\ run_status = "failed") =>
        /\ ev_pc = "done"
        /\ Cardinality(OpsNamed("evals.runs.create")) = 1
        /\ OpsNamed("evals.runs.output_items.list") = {}
        /\ remote_ops[Len(remote_ops)].op = "evals.runs.retrieve"
        /\ output_items = <<>>
        /\ report = EmptyDict
        /\ ~ENABLED EvalNext

C15_Witness ==
    /\ script = "run_evaluation" /\ run_status = "failed" /\ ev_pc = "done"
    /\ ev_sleeps > 0

\* C16 -- for a completed run the value reported for an evaluator name is
\* the arithmetic mean (printed with two decimals) of exactly the non-null
\* scores that carry the name across all output items; a name whose scores
\* are all null is reported as N/A, nothing is divided by zero, and an output
\* item without scores contributes nothing.
C16_MeanOfNonNullScores ==
    (script = "run_evaluation" /\ ev_pc = "done" /\ run_status = "completed") =>
        /\ DOMAIN report = { ScoreAt(p).name : p \in ScorePositions }
        /\ \A name \in DOMAIN report :
             LET scored == NonNullOf(name) IN
             IF scored = {} THEN report[name] = <<>>
             ELSE /\ Len(report[name]) = 2
                  /\ report[name][2] = Cardinality(scored)
                  /\ 2 * Abs(100 * TotalOf(scored)
                               - report[name][1] * Cardinality(scored))
                        <= Cardinality(scored)

C16_Witness ==
    /\ script = "run_evaluation" /\ ev_pc = "done" /\ run_status = "completed"
    /\ DOMAIN report = {"coherence", "fluency"}
    /\ report["coherence"] = <<167, 3>>
    /\ report["fluency"] = <<>>
    /\ \E i \in 1..Len(output_items) : ~output_items[i].has_scores

\* C20 -- in run_evaluation_with_dataset.main, when the dataset file does not
\* exist the script prints an error and returns before any remote operation:
\* no client is opened, no dataset uploaded, no evaluation or run created.
C20_MissingDatasetReturns ==
    (script = "run_evaluation" /\ ~dataset_exists) =>
        /\ ev_pc \in {"start", "returned"}
        /\ remote_ops = <<>>
        /\ ev_pc = "start" => ENABLED EvDatasetMissing
        /\ ev_pc = "returned" => ~ENABLED EvalNext

C20_Witness ==
    /\ script = "run_evaluation" /\ ~dataset_exists
    /\ ev_pc = "returned" /\ remote_ops = <<>>

-----------------------------------------------------------------------------
(* Vocabulary of the properties of the two calls *)

BothEnded == \A r \in 1..2 : twin[r].pc \in {"returned", "raised"}

\* a transcript without the contents of its tool results
Skeleton(messages) ==
    [ i \in 1..Len(messages) |->
        IF messages[i].role = "tool"
        THEN [messages[i] EXCEPT !.content = << [type |-> "tool_result"] >>]
        ELSE messages[i] ]

\* the callables whose result holds a value made from datetime.now()
ClockedNames ==
    {"send_email", "update_customer_profile_salesforce",
     "create_support_ticket_erp", "schedule_installation",
     "process_warranty_claim"}

EmbedsClock(call) ==
    /\ call.type = "function_call"
    /\ call.name \in DOMAIN AVAILABLE_FUNCTIONS
    /\ Unexpected(AVAILABLE_FUNCTIONS[call.name], call.arguments) = {}
    /\ Missing(AVAILABLE_FUNCTIONS[call.name], call.arguments) = {}
    /\ \/ call.name \in ClockedNames
       \/ /\ call.name = "process_refund"
          /\ Get(call.arguments, "order_number") \in DOMAIN orders

ClockFree(r) ==
    \A i \in 1..Len(twin[r].tool_calls_made) :
        ~EmbedsClock(twin[r].tool_calls_made[i])

\* C17 as stated -- two calls of execute_agent_query against the same
\* stubbed sequence of responses produce the same transcript: same messages,
\* roles, tool calls, tool_call_ids and results in the same order (the
\* timestamps and the run_id of the messages are not part of the transcript
\* compared).
C17_AsStated ==
    BothEnded =>
        /\ twin[1].pc = twin[2].pc
        /\ twin[1].result = twin[2].result

\* C17 (amended) -- two calls of execute_agent_query against the same
\* stubbed sequence of responses end the same way, consume the same number
\* of responses and produce transcripts with the same messages, roles, tool
\* calls and tool_call_ids in the same order; the tool results are the same
\* too when no call went to a callable that puts datetime.now() into its
\* result (process_refund on a found order, send_email,
\* update_customer_profile_salesforce, create_support_ticket_erp,
\* schedule_installation, process_warranty_claim) or when both calls read
\* the same clock.
C17_DeterministicInResponses ==
    BothEnded =>
        /\ twin[1].pc = twin[2].pc
        /\ twin[1].served = twin[2].served
        /\ twin[1].result.tool_calls = twin[2].result.tool_calls
        /\ Skeleton(twin[1].result.response) = Skeleton(twin[2].result.response)
        /\ (ClockFree(1) \/ twin_now[1] = twin_now[2]) =>
              twin[1].result = twin[2].result

C17_Witness ==
    /\ BothEnded /\ twin[1].pc = "returned"
    /\ twin_now[1] /= twin_now[2]
    /\ ClockFree(1)
    /\ \E i \in 1..Len(twin[1].result.response) :
         /\ twin[1].result.response[i].role = "tool"
         /\ "success" \in
                DOMAIN twin[1].result.response[i].content[1].tool_result
         /\ twin[1].result.response[i].content[1].tool_result.success = FALSE
         /\ "refund_id" \in
                DOMAIN twin[1].result.response[i].content[1].tool_result
    /\ twin[1].result = twin[2].result

-----------------------------------------------------------------------------
(* Vocabulary of the properties of the transcript *)

IsPrefix(a, b) == Len(a) <= Len(b) /\ SubSeq(b, 1, Len(a)) = a

Added(a, b) == SubSeq(b, Len(a) + 1, Len(b))

IsToolCallsMessage(m) ==
    /\ m.role = "assistant" /\ m.content /= <<>>
    /\ \A k \in 1..Len(m.content) : m.content[k].type = "tool_call"

IsTextMessage(m) ==
    m.role = "assistant" /\ Len(m.content) = 1 /\ m.content[1].type = "text"

IdsOf(content) == [k \in 1..Len(content) |-> content[k].tool_call_id]

\* the call ids of the function calls of a response, in order
RECURSIVE FunctionCallIds(_)
FunctionCallIds(output) ==
    IF output = <<>> THEN <<>>
    ELSE (IF Head(output).type = "function_call"
          THEN << Head(output).call_id >> ELSE <<>>)
         \o FunctionCallIds(Tail(output))

RECURSIVE IsSubsequence(_, _)
IsSubsequence(a, b) ==
    IF a = <<>> THEN TRUE
    ELSE IF b = <<>> THEN FALSE
    ELSE IF Head(a) = Head(b) THEN IsSubsequence(Tail(a), Tail(b))
    ELSE IsSubsequence(a, Tail(b))

\* the messages of one iteration: the assistant message with the tool calls
\* of the response, then tool messages for calls of that message, in the
\* order of the calls
IsTurn(block, output) ==
    /\ block /= <<>>
    /\ IsToolCallsMessage(block[1])
    /\ IdsOf(block[1].content) = FunctionCallIds(output)
    /\ \A k \in 2..Len(block) : block[k].role = "tool"
    /\ IsSubsequence([k \in 1..(Len(block) - 1) |-> block[k + 1].tool_call_id],
                     IdsOf(block[1].content))

\* C18 -- the transcript of execute_agent_query is append-only and ordered by
\* turn: every iteration appends, after the messages of the iterations
\* before it, the assistant message that holds the tool calls of its
\* response followed by the tool-role result messages in the order of the
\* tool calls (nothing when the response has no tool call); the final
\* assistant text message is appended last, exactly when the final response
\* text is not empty.
C18_TranscriptTurnOrdered ==
    /\ [](IsAgentHelpers =>
            \A i \in 1..Len(response_messages) :
                /\ response_messages[i].role \in {"assistant", "tool"}
                /\ IsTextMessage(response_messages[i]) =>
                      /\ pc = "returned"
                      /\ i = Len(response_messages)
                /\ response_messages[i].role = "tool" =>
                      \E j \in 1..(i - 1) :
                          /\ IsToolCallsMessage(response_messages[j])
                          /\ \A k \in (j + 1)..i :
                                 response_messages[k].role = "tool"
                          /\ response_messages[i].tool_call_id \in
                                 { response_messages[j].content[c].tool_call_id :
                                     c \in 1..Len(response_messages[j].content) })
    /\ [][(IsAgentHelpers /\ pc' \in {"loop", "returned"}) =>
            /\ IsPrefix(response_messages, response_messages')
            /\ LET added == Added(response_messages, response_messages') IN
               IF pc' = "loop"
               THEN IF FunctionCallIds(current_response'.output) = <<>>
                    THEN added = <<>>
                    ELSE IsTurn(added, current_response'.output)
               ELSE IF current_response.output_text /= ""
                    THEN /\ Len(added) = 1 /\ IsTextMessage(added[1])
                         /\ added[1].content[1].text = current_response.output_text
                    ELSE added = <<>>]_vars

C18_Witness ==
    /\ IsAgentHelpers /\ pc = "returned"
    /\ Len(response_messages) = 6
    /\ IsToolCallsMessage(response_messages[1])
    /\ Len(response_messages[1].content) = 2
    /\ response_messages[2].role = "tool"
    /\ response_messages[3].role = "tool"
    /\ response_messages[2].tool_call_id /= response_messages[3].tool_call_id
    /\ IsToolCallsMessage(response_messages[4])
    /\ response_messages[5].role = "tool"
    /\ IsTextMessage(response_messages[6])

\* C19 -- in generate_agent_test_dataset.main the created agent and vector
\* store are deleted in the final cleanup step only: the cleanup is the step
\* that follows whenever tool creation, agent creation and save_dataset have
\* completed, even if every query failed, and an exception raised in one of
\* those earlier steps ends the script without any deletion attempted.
C19_CleanupOnlyAtTheEnd ==
    /\ [](/\ deletions /= <<>> =>
                /\ main_pc = "complete"
                /\ created = {"vector_store", "agent"}
                /\ saved = Some(test_data)
                /\ deletions[1].resource = "agent"
          /\ main_pc = "crashed" => deletions = <<>>
          /\ main_pc = "saved" =>
                /\ created = {"vector_store", "agent"}
                /\ ENABLED MainCleanup
          /\ (main_pc = "agent" /\ pc = "done") => ENABLED MainSaveDataset
          /\ main_pc = "complete" => deletions /= <<>>)
    /\ [][main_pc = "saved" => main_pc' = "complete"]_vars

\* every query failed, the (empty) dataset was saved, the cleanup ran
C19_Witness ==
    /\ main_pc = "complete"
    /\ Len(outcomes) = Len(queries)
    /\ \A k \in 1..Len(outcomes) : outcomes[k].status = "raised"
    /\ saved = Some(<<>>)
    /\ deletions = << Deletion("agent", FALSE), Deletion("vector_store", FALSE) >>

\* C21 -- in every driver variant, after a response has been processed every
\* executed call_id has an entry in function_results: when the registered
\* callable raised, {"error": <message>} is recorded under the call_id.
C21_ErrorRecordedUnderCallId ==
    pc \in {"loop", "scanned", "returned"} =>
        \A i \in 1..Len(executed) :
            /\ executed[i].call_id \in DOMAIN function_results
            /\ (executed[i].raised /\ \A j \in (i+1)..Len(executed) :
                                        executed[j].call_id /= executed[i].call_id)
                   => DOMAIN function_results[executed[i].call_id] = {"error"}

\* the function_call_output entries a response's output gives rise to: one
\* per function_call item naming a registered tool, in output order
RECURSIVE OutputsFor(_)
OutputsFor(output) ==
    IF output = <<>> THEN <<>>
    ELSE LET item == Head(output) IN
         (IF item.type = "function_call" /\ item.name \in DOMAIN AVAILABLE_FUNCTIONS
          THEN << FunctionCallOutput(item.call_id,
                      JsonDumps(ResultOfCall(item.name, JsonLoads(item.arguments)))) >>
          ELSE <<>>)
         \o OutputsFor(Tail(output))

\* C22 -- each follow-up request of execute_agent_query carries as input
\* exactly the function_call_output entries produced from the immediately
\* preceding response (one per executed call, in output order, nothing of
\* earlier iterations) and previous_response_id equal to that response's id.
C22_FollowUpCarriesLastOutputs ==
    /\ [](IsAgentHelpers =>
            \A k \in 2..Len(requests) :
                /\ requests[k].kind = "outputs"
                /\ requests[k].previous_response_id = k - 1)
    /\ [][(IsAgentHelpers /\ Len(requests') = Len(requests) + 1 /\ requests /= <<>>) =>
            LET sent == requests'[Len(requests')] IN
            /\ current_response.id = Len(requests)
            /\ sent.previous_response_id = current_response.id
            /\ sent.input = OutputsFor(current_response.output)
            /\ Len(sent.input) = Cardinality(RegisteredItems(current_response.output))]_vars

\* a second follow-up whose input is the one output of the first follow-up's
\* call, after a first follow-up that carried two outputs
C22_Witness ==
    /\ IsAgentHelpers /\ pc = "loop"
    /\ Len(requests) = 3
    /\ Len(requests[2].input) = 2
    /\ Len(requests[3].input) = 1
    /\ requests[3].previous_response_id = 2
    /\ requests[3].input[1].call_id /= requests[2].input[2].call_id

\* C23 -- between two successive queries of generate_test_dataset the
\* 1-second sleep is executed once before the later query is sent, whether
\* the earlier query succeeded or raised: when query number n is about to be
\* sent, n - 1 sleeps have been executed.
C23_SleepBetweenQueries ==
    (IsAgentHelpers /\ pc = "idle" /\ qidx <= Len(queries)) => sleeps = qidx - 1

\* the invocation items of an output list as tool_calls entries, in order
RECURSIVE InvocationsOf(_)
InvocationsOf(output) ==
    IF output = <<>> THEN <<>>
    ELSE LET item == Head(output) IN
         (CASE item.type = "function_call" ->
                   << [type |-> "function_call", tool_call_id |-> item.call_id,
                       name |-> item.name,
                       arguments |-> JsonLoads(item.arguments)] >>
            [] item.type = "file_search_call" ->
                   << [type |-> "file_search", tool_call_id |-> item.call_id,
                       queries |-> item.queries] >>
            [] item.type = "azure_ai_search_call" ->
                   << [type |-> "azure_ai_search", tool_call_id |-> item.call_id,
                       query |-> Arg(JsonLoads(item.arguments), "query", ""),
                       arguments |-> JsonLoads(item.arguments)] >>
            [] OTHER -> <<>>)
         \o InvocationsOf(Tail(output))

\* C24 -- the tool_calls field of the record returned by execute_agent_query
\* is the list of every invocation item seen across all iterations, in the
\* order received (function calls, registered or not, file-search calls and
\* index-search calls), and is None exactly when no such item was seen.
C24_ToolCallsListEveryInvocation ==
    /\ [](IsAgentHelpers =>
            /\ pc = "idle" => tool_calls_made = <<>>
            /\ pc = "returned" =>
                  /\ result.tool_calls = <<>> <=> tool_calls_made = <<>>
                  /\ tool_calls_made /= <<>> =>
                        result.tool_calls = Some(tool_calls_made))
    /\ [][(IsAgentHelpers /\ pc' \in {"loop", "returned"}) =>
            IF current_response' /= current_response
            THEN tool_calls_made' =
                     tool_calls_made \o InvocationsOf(current_response'.output)
            ELSE tool_calls_made' = tool_calls_made]_vars

\* a record whose tool_calls hold a registered and an unregistered function
\* call of the initial response and an index-search call of the follow-up
C24_Witness ==
    /\ IsAgentHelpers /\ pc = "returned"
    /\ Len(requests) >= 2
    /\ result.tool_calls /= <<>>
    /\ LET calls == result.tool_calls[1] IN
       /\ Len(calls) = 3
       /\ calls[1].type = "function_call" /\ calls[1].name = "check_order_status"
       /\ calls[2].type = "function_call" /\ calls[2].name = "get_weather"
       /\ calls[3].type = "azure_ai_search" /\ calls[3].query = "tv stock"

\* positions of the names of a list that are keys of EVALUATOR_DATA_MAPPINGS
KnownIdx(names) ==
    { i \in 1..Len(names) : names[i] \in DOMAIN EVALUATOR_DATA_MAPPINGS }

\* C25 -- build_testing_criteria returns one criterion per input name that is
\* a key of EVALUATOR_DATA_MAPPINGS, in input order, with name the evaluator
\* name, evaluator_name "builtin.<name>" and data_mapping the table's
\* projection for that name; other names are skipped and yield no criterion.
C25_OneCriterionPerKnownName ==
    (fn_pc = "returned" /\ fn_name = "build_testing_criteria") =>
        /\ Len(fn_result) = Cardinality(KnownIdx(fn_args))
        /\ \A k \in 1..Len(fn_result) :
             LET name == fn_args[Nth(KnownIdx(fn_args), k)] IN
             /\ fn_result[k].type = "azure_ai_evaluator"
             /\ fn_result[k].name = name
             /\ fn_result[k].evaluator_name = "builtin." \o name
             /\ fn_result[k].data_mapping = EVALUATOR_DATA_MAPPINGS[name]
        /\ \A k \in 1..Len(fn_result) : fn_result[k].name /= "unknown_evaluator"

\* an unknown name before a known one: one criterion, for the known name
C25_Witness ==
    /\ fn_pc = "returned" /\ fn_name = "build_testing_criteria"
    /\ fn_args = << "unknown_evaluator", "groundedness" >>
    /\ Len(fn_result) = 1
    /\ fn_result[1].evaluator_name = "builtin.groundedness"
    /\ fn_result[1].data_mapping =
           { <<"context", "{{item.context}}">>, <<"query", "{{item.query}}">>,
             <<"response", "{{item.response}}">>,
             <<"tool_definitions", "{{item.tool_definitions}}">> }

\* the driver returned at the iteration ceiling with outputs it never sent
LeftAtCeiling ==
    /\ IsAgentHelpers /\ pc = "returned"
    /\ iteration = max_iterations
    /\ input_list /= <<>>

\* C26 -- when execute_agent_query leaves its loop at the iteration ceiling
\* while the last response still requested registered tools, those tools have
\* been executed locally and their results are tool-role messages of the
\* returned transcript, but no request carrying those results is ever sent.
C26_CeilingResultsNeverSent ==
    /\ [](LeftAtCeiling =>
            /\ Len(requests) = 1 + max_iterations
            /\ Len(input_list) = Cardinality(RegisteredItems(current_response.output))
            /\ \A j \in 1..Len(input_list) :
                 LET id == input_list[j].call_id IN
                 /\ \E i \in 1..Len(executed) : executed[i].call_id = id
                 /\ \E m \in 1..Len(result.response) :
                      /\ result.response[m].role = "tool"
                      /\ result.response[m].tool_call_id = id
                      /\ JsonDumps(result.response[m].content[1].tool_result)
                             = input_list[j].output
                 /\ \A k \in 1..Len(requests) :
                      requests[k].kind = "outputs" =>
                          \A o \in 1..Len(requests[k].input) :
                              requests[k].input[o].call_id /= id)
    /\ [][LeftAtCeiling => requests' = <<>>]_vars

C26_Witness ==
    /\ LeftAtCeiling
    /\ Len(executed) = 2 + max_iterations
    /\ executed[Len(executed)].call_id = input_list[1].call_id
    /\ \E m \in 1..Len(result.response) :
          /\ result.response[m].role = "tool"
          /\ result.response[m].tool_call_id = input_list[1].call_id

\* position of the assistant message that opens the turn of tool message m
TurnOf(m) ==
    CHOOSE a \in 1..(m - 1) :
        /\ response_messages[a].role = "assistant"
        /\ \A b \in (a + 1)..(m - 1) : response_messages[b].role = "tool"

\* C27 -- every tool-role message of the transcript of execute_agent_query
\* carries the result of a callable executed for a tool call in the assistant
\* message of the same iteration: a result recorded in an earlier iteration
\* is never re-emitted for a later tool call, even when that call names an
\* unregistered tool and reuses an earlier call_id.
C27_ToolMessagesOfSameIteration ==
    (IsAgentHelpers /\ pc \in {"loop", "returned"}) =>
        \A m \in 1..Len(response_messages) :
            response_messages[m].role = "tool" =>
                LET content == response_messages[TurnOf(m)].content IN
                \E c \in 1..Len(content) :
                    /\ content[c].tool_call_id = response_messages[m].tool_call_id
                    /\ content[c].name \in DOMAIN AVAILABLE_FUNCTIONS

\* a function_call item whose arguments json.loads rejects
Unparsable(output) ==
    \E i \in 1..Len(output) :
        /\ output[i].type = "function_call"
        /\ ~JsonParses(output[i].arguments)

\* the step ends the running query with an exception of json.loads
FailsOnJson ==
    /\ Len(outcomes') = Len(outcomes) + 1
    /\ outcomes'[Len(outcomes')].status = "raised"
    /\ outcomes'[Len(outcomes')].cause = "json"

\* the driver has scanned the items of current_response (the variants scan
\* their initial response only)
ScannedResponse ==
    \/ IsAgentHelpers /\ pc \in {"loop", "returned"}
    \/ ~IsAgentHelpers /\ pc \in {"scanned", "returned"} /\ current_response.id = 1

\* C28 -- a function_call item whose arguments cannot be parsed as JSON is
\* not handled per invocation: the driver that scans it parses it outside
\* the per-call try block, so the exception of json.loads leaves the driver,
\* no error payload is produced for the call_id, no follow-up request is sent
\* and no record is returned for the query.  No scan ever completes on a
\* response holding such an item, and the step that meets it ends the query.
C28_UnparsableArgumentsPropagate ==
    /\ [](ScannedResponse => ~Unparsable(current_response.output))
    /\ [][FailsOnJson =>
            /\ pc \in {"idle", "loop"}
            /\ pc' = IF IsAgentHelpers THEN "idle" ELSE "crashed"
            /\ requests' = <<>> /\ input_list' = <<>>
            /\ function_results' = EmptyDict
            /\ result' = NoResult
            /\ test_data' = test_data /\ sleeps' = sleeps
            /\ qidx' = IF IsAgentHelpers THEN qidx + 1 ELSE qidx]_vars

\* the first query failed on the response to its follow-up request: no
\* record was kept and the next query is up
C28_Witness ==
    /\ IsAgentHelpers /\ pc = "idle"
    /\ Len(outcomes) = 1
    /\ outcomes[1].status = "raised"
    /\ outcomes[1].cause = "json" /\ outcomes[1].requests = 2
    /\ qidx = 2
    /\ test_data = <<>>
    /\ requests = <<>>

\* the keywords a callable accepts among a set of names
Accepted(sig, names) ==
    IF sig.var_kw THEN names ELSE names \cap (sig.required \cup sig.optional)

\* C29 -- the tool registry and the tool schemas are consistent: the keys of
\* AVAILABLE_FUNCTIONS are the names in FUNCTION_TOOL_SCHEMAS, each schema's
\* key equals its name field, and every property a tool's schema declares is
\* accepted as a keyword argument by the callable registered under that name:
\* a call that passes schema properties only raises only for a missing
\* required parameter.
C29_RegistryMatchesSchemas ==
    /\ DOMAIN AVAILABLE_FUNCTIONS
           = { FUNCTION_TOOL_SCHEMAS[k].name : k \in DOMAIN FUNCTION_TOOL_SCHEMAS }
    /\ \A k \in DOMAIN FUNCTION_TOOL_SCHEMAS : FUNCTION_TOOL_SCHEMAS[k].name = k
    /\ \A k \in DOMAIN FUNCTION_TOOL_SCHEMAS :
          /\ k \in DOMAIN AVAILABLE_FUNCTIONS
          /\ Accepted(AVAILABLE_FUNCTIONS[k], FUNCTION_TOOL_SCHEMAS[k].properties)
                 = FUNCTION_TOOL_SCHEMAS[k].properties
    /\ fn_name \in DOMAIN FUNCTION_TOOL_SCHEMAS =>
          /\ fn_pc = "raised"
                 /\ Keys(fn_args) \subseteq FUNCTION_TOOL_SCHEMAS[fn_name].properties
              => Missing(AVAILABLE_FUNCTIONS[fn_name], fn_args) /= {}
          /\ fn_pc = "returned" =>
                 Unexpected(AVAILABLE_FUNCTIONS[fn_name], fn_args) = {}

\* the callable with **updates was called with every property of its schema
C29_Witness ==
    /\ fn_pc = "returned"
    /\ fn_name = "update_customer_profile_salesforce"
    /\ Keys(fn_args) = FUNCTION_TOOL_SCHEMAS[fn_name].properties
    /\ Keys(fn_args) = {"customer_id", "phone", "email", "address"}

\* the template that projects a field of an item
Template(key) == "{{item." \o key \o "}}"

\* C30 -- in schema_mappings the two tables have the same evaluator names,
\* and for each evaluator the keys of its data mapping are the properties of
\* its item schema, every required field is one of those properties, and
\* each mapping value is the template "{{item.<key>}}" of its own key; so is
\* every data mapping build_testing_criteria hands out.
C30_MappingsMatchSchemas ==
    /\ DOMAIN EVALUATOR_DATA_SOURCE_CONFIGS = DOMAIN EVALUATOR_DATA_MAPPINGS
    /\ \A name \in DOMAIN EVALUATOR_DATA_MAPPINGS :
          /\ name \in DOMAIN EVALUATOR_DATA_SOURCE_CONFIGS
          /\ Keys(EVALUATOR_DATA_MAPPINGS[name])
                 = EVALUATOR_DATA_SOURCE_CONFIGS[name].properties
          /\ EVALUATOR_DATA_SOURCE_CONFIGS[name].required
                 \subseteq EVALUATOR_DATA_SOURCE_CONFIGS[name].properties
          /\ \A p \in EVALUATOR_DATA_MAPPINGS[name] : p[2] = Template(p[1])
    /\ (fn_pc = "returned" /\ fn_name = "build_testing_criteria") =>
          \A k \in 1..Len(fn_result) :
              /\ fn_result[k].name \in DOMAIN EVALUATOR_DATA_SOURCE_CONFIGS
              /\ Keys(fn_result[k].data_mapping)
                     = EVALUATOR_DATA_SOURCE_CONFIGS[fn_result[k].name].properties
              /\ \A p \in fn_result[k].data_mapping : p[2] = Template(p[1])

\* the criteria of all twelve evaluators were built
C30_Witness ==
    /\ fn_pc = "returned" /\ fn_name = "build_testing_criteria"
    /\ fn_args = evaluator_names
    /\ { fn_result[k].name : k \in 1..Len(fn_result) }
           = DOMAIN EVALUATOR_DATA_SOURCE_CONFIGS
    /\ Cardinality(DOMAIN EVALUATOR_DATA_SOURCE_CONFIGS) = 12

=============================================================================
